---------------------------- MODULE Spec2Model ----------------------------
(***************************************************************************)
(* Primal-dual predictor-corrector interior-point solver of chrono         *)
(* (ChInteriorPoint, src/src/chrono_mumps/ChInteriorPoint.cpp) together    *)
(* with the linear engine and the system descriptor it talks to.           *)
(*                                                                         *)
(* Arithmetic.  The code computes in IEEE doubles.  The model computes in  *)
(* exact rationals <<p, q>> (q > 0, gcd(p, q) = 1); NaN = <<0, 0>> stands   *)
(* for a non-finite double (the result of a division by zero) and          *)
(* propagates through every operation, every comparison with it being      *)
(* false.  A rational whose numerator or denominator would exceed          *)
(* MaxMagnitude is not followed: it becomes Top = <<1, 0>>, an unknown     *)
(* value, and a solver state that holds it is unknown as a whole.          *)
(* Indices are 1-based here and 0-based in the code.                       *)
(*                                                                         *)
(* Evaluation.  The({e : v \in {d}}) is "LET v == d IN e" with d computed  *)
(* once: TLC binds v to the value of d, where it expands a LET definition  *)
(* or an operator argument again at each of its uses.                      *)
(***************************************************************************)
EXTENDS Integers, Sequences, FiniteSets, TLC

The(S) == CHOOSE v \in S : TRUE

(***************************************************************************)
(* Rational numbers                                                        *)
(***************************************************************************)
\* numerators and denominators are kept within this magnitude
MaxMagnitude == 1000000000

IAbs(i) == IF i < 0 THEN -i ELSE i

RECURSIVE GCD(_, _)
GCD(a0, b0) ==
    The({ IF b = 0 THEN a ELSE GCD(b, a % b) : a \in {a0}, b \in {b0} })

NaN == <<0, 0>>

Top == <<1, 0>>

IsFin(a) == a[2] # 0

\* the non-finite result of an operation one of whose operands is not finite
Propagate(a, b) == IF a = Top \/ b = Top THEN Top ELSE NaN

MulFits(i, j) == i = 0 \/ j = 0 \/ IAbs(i) <= MaxMagnitude \div IAbs(j)

R(p0, q0) ==
    The({ IF q = 0 THEN NaN
          ELSE The({ IF IAbs(p) \div g > MaxMagnitude \/ IAbs(q) \div g > MaxMagnitude
                     THEN Top
                     ELSE IF q < 0 THEN <<(-p) \div g, (-q) \div g>>
                     ELSE <<p \div g, q \div g>>
                     : g \in {GCD(IAbs(p), IAbs(q))} })
          : p \in {p0}, q \in {q0} })

I(k) == <<k, 1>>

Zero == <<0, 1>>

One == <<1, 1>>

RNeg(a0) == The({ IF IsFin(a) THEN <<-a[1], a[2]>> ELSE a : a \in {a0} })

RAdd(a0, b0) ==
    The({ IF ~IsFin(a) \/ ~IsFin(b) THEN Propagate(a, b)
          ELSE The({ The({ IF MulFits(a[1], b2) /\ MulFits(b[1], a2) /\ MulFits(a2, b[2])
                           THEN R(a[1] * b2 + b[1] * a2, a2 * b[2])
                           ELSE Top
                           : a2 \in {a[2] \div g}, b2 \in {b[2] \div g} })
                     : g \in {GCD(a[2], b[2])} })
          : a \in {a0}, b \in {b0} })

RSub(a, b) == RAdd(a, RNeg(b))

RMul(a0, b0) ==
    The({ IF ~IsFin(a) \/ ~IsFin(b) THEN Propagate(a, b)
          ELSE The({ IF MulFits(a[1] \div g1, b[1] \div g2) /\ MulFits(a[2] \div g2, b[2] \div g1)
                     THEN R((a[1] \div g1) * (b[1] \div g2), (a[2] \div g2) * (b[2] \div g1))
                     ELSE Top
                     : g1 \in {GCD(IAbs(a[1]), b[2])}, g2 \in {GCD(IAbs(b[1]), a[2])} })
          : a \in {a0}, b \in {b0} })

RInv(a0) ==
    The({ IF ~IsFin(a) THEN a
          ELSE IF a[1] = 0 THEN NaN
          ELSE IF a[1] < 0 THEN <<-a[2], -a[1]>> ELSE <<a[2], a[1]>>
          : a \in {a0} })

RDiv(a, b) == RMul(a, RInv(b))

\* comparisons are false when an operand (or their difference) is not finite
\* -1, 0 or 1 as p1/q1 is below, equal to or above p2/q2 (q1, q2 > 0), by the
\* integer parts and then the reciprocals of the fractional parts
RECURSIVE Compare(_, _, _, _)
Compare(p1, q1, p2, q2) ==
    The({ IF f1 # f2 THEN (IF f1 < f2 THEN -1 ELSE 1)
          ELSE The({ IF r1 = 0 /\ r2 = 0 THEN 0
                     ELSE IF r1 = 0 THEN -1
                     ELSE IF r2 = 0 THEN 1
                     ELSE Compare(q2, r2, q1, r1)
                     : r1 \in {p1 % q1}, r2 \in {p2 % q2} })
          : f1 \in {p1 \div q1}, f2 \in {p2 \div q2} })

\* comparisons are exact on finite values and false on the others
RLt(a0, b0) ==
    \E a \in {a0}, b \in {b0} :
       IsFin(a) /\ IsFin(b) /\ Compare(a[1], a[2], b[1], b[2]) < 0

RLe(a0, b0) ==
    \E a \in {a0}, b \in {b0} :
       IsFin(a) /\ IsFin(b) /\ Compare(a[1], a[2], b[1], b[2]) <= 0

RAbs(a0) == The({ IF IsFin(a) /\ a[1] < 0 THEN <<-a[1], a[2]>> ELSE a : a \in {a0} })

RMin(a0, b0) ==
    The({ IF a = Top \/ b = Top THEN Top ELSE IF RLt(b, a) THEN b ELSE a
          : a \in {a0}, b \in {b0} })

(***************************************************************************)
(* Dense vectors (ChMatrixDynamic<double> with one column)                 *)
(***************************************************************************)
\* a function over 1..len as the tuple of its values
Tuple(f) == f \o <<>>

FillElem(len, v0) == The({ Tuple([i \in 1..len |-> v]) : v \in {v0} })

VAdd(u0, v0) ==
    The({ Tuple([i \in 1..Len(u) |-> RAdd(u[i], v[i])]) : u \in {u0}, v \in {v0} })

VSub(u0, v0) ==
    The({ Tuple([i \in 1..Len(u) |-> RSub(u[i], v[i])]) : u \in {u0}, v \in {v0} })

MatrScale(u0, s0) ==
    The({ Tuple([i \in 1..Len(u) |-> RMul(u[i], s)]) : u \in {u0}, s \in {s0} })

MatrScaleVec(u0, v0) ==
    The({ Tuple([i \in 1..Len(u) |-> RMul(u[i], v[i])]) : u \in {u0}, v \in {v0} })

MatrAddScalar(u0, s0) ==
    The({ Tuple([i \in 1..Len(u) |-> RAdd(u[i], s)]) : u \in {u0}, s \in {s0} })

RECURSIVE SumTo(_, _)
SumTo(f0, k0) ==
    The({ IF k = 0 THEN Zero ELSE RAdd(SumTo(f, k - 1), f[k]) : f \in {f0}, k \in {k0} })

MatrDot(u0, v0) ==
    The({ SumTo(Tuple([i \in 1..Len(u) |-> RMul(u[i], v[i])]), Len(u))
          : u \in {u0}, v \in {v0} })

VHasTop(u0) == \E u \in {u0} : \E i \in 1..Len(u) : u[i] = Top

VFinite(u0) == \E u \in {u0} : \A i \in 1..Len(u) : IsFin(u[i])

(***************************************************************************)
(* Sparse matrix seen through GetElement/SetElement: a dense array of its  *)
(* values, an absent entry reading 0                                       *)
(***************************************************************************)
ZeroMat(rows, cols) == Tuple([i \in 1..rows |-> Tuple([j \in 1..cols |-> Zero])])

SetElement(M, i, j, v) == [M EXCEPT ![i][j] = v]

\* rows r0..r1 and columns c0..c1 (1-based, inclusive) of M times vect_in
MatMultiplyClipped(M0, vect_in0, r0, r1, c0, c1) ==
    The({ Tuple([i \in 1..(r1 - r0 + 1) |->
              SumTo(Tuple([j \in 1..(c1 - c0 + 1) |->
                        RMul(M[r0 + i - 1][c0 + j - 1], vect_in[j])]),
                    c1 - c0 + 1)])
          : M \in {M0}, vect_in \in {vect_in0} })


(***************************************************************************)
(* Linear engine (ChMumpsEngine): an external direct solver.  A call       *)
(* either succeeds, overwriting the right-hand side with the solution of   *)
(* the system (computed here by Gauss-Jordan elimination), or fails with a *)
(* non-zero status and leaves the right-hand side as it was.               *)
(***************************************************************************)
\* row k of sw divided by its pivot, then eliminated from the other rows
Eliminate(sw, k, N) ==
    The({ Tuple([r \in 1..N |->
              IF r = k THEN prow
              ELSE Tuple([j \in 1..(N + 1) |-> RSub(sw[r][j], RMul(sw[r][k], prow[j]))])])
          : prow \in {Tuple([j \in 1..(N + 1) |-> RDiv(sw[k][j], sw[k][k])])} })

RECURSIVE GaussJordan(_, _, _)
GaussJordan(Aug0, k0, N) ==
    The({ IF k > N THEN Aug
          ELSE The({ IF cand = {} THEN <<>>
                     ELSE The({ GaussJordan(Eliminate(sw, k, N), k + 1, N)
                                : sw \in {The({ [Aug EXCEPT ![k] = Aug[p], ![p] = Aug[k]]
                                               : p \in {CHOOSE r \in cand :
                                                           \A q \in cand : r <= q} })} })
                     : cand \in {{r \in k..N : Aug[r][k][1] # 0}} })
          : Aug \in {Aug0}, k \in {k0} })

\* the solution of Z * sol = rhs; <<>> when Z is singular or not finite; unknown
\* when it cannot be represented
ExactSolution(Z0, rhs0) ==
    The({ The({ IF \E i \in 1..N : VHasTop(Aug[i]) THEN FillElem(N, Top)
                ELSE IF N = 0 \/ ~(\A i \in 1..N : VFinite(Aug[i])) THEN <<>>
                ELSE The({ IF red = <<>> THEN <<>>
                           ELSE IF \E i \in 1..N : red[i][N + 1] = Top THEN FillElem(N, Top)
                           ELSE Tuple([i \in 1..N |-> red[i][N + 1]])
                           : red \in {GaussJordan(Aug, 1, N)} })
                : N \in {Len(rhs)}, Aug \in {Tuple([i \in 1..Len(rhs) |-> Append(Z[i], rhs[i])])} })
          : Z \in {Z0}, rhs \in {rhs0} })

EngineChoice == {"solved", "failed"}

\* SetProblem(Z, rhs) followed by MumpsCall(): the status and the content of
\* the right-hand-side buffer afterwards
MumpsCall(Z, rhs0, choice) ==
    The({ IF choice = "solved"
          THEN The({ IF sol # <<>> THEN [status |-> 0, sol |-> sol]
                     ELSE [status |-> -1, sol |-> rhs]
                     : sol \in {ExactSolution(Z, rhs)} })
          ELSE [status |-> -1, sol |-> rhs]
          : rhs \in {rhs0} })


(***************************************************************************)
(* System descriptor (ChSystemDescriptor): an external collaborator.  It   *)
(* holds the problem  | M  Cq'| in Chrono's convention and receives the    *)
(*                    | Cq  E |                                            *)
(* solution vector.  Nocedal's symbols: G = M, A = Cq, c = -f, b = -b_i.   *)
(***************************************************************************)
Problem(G, A, cvec, bvec) ==
    [nv |-> Len(cvec), nc |-> Len(bvec), M |-> G, Cq |-> A,
     f |-> Tuple([i \in 1..Len(cvec) |-> RNeg(cvec[i])]),
     bi |-> Tuple([i \in 1..Len(bvec) |-> RNeg(bvec[i])])]

CountActiveVariables(d) == d.nv

CountActiveConstraints(d) == d.nc

\* ConvertToMatrixForm(&Z, nullptr, false, skip, mode): the symmetric
\* matrix [M Cq'; Cq 0], the Cq' block being shifted by m columns in mode 2
ConvertToMatrixForm(d0, mode) ==
    The({ The({ Tuple([i \in 1..(off + mm) |-> Tuple([j \in 1..(off + mm) |->
                    IF i <= nn /\ j <= nn THEN d.M[i][j]
                    ELSE IF i <= nn /\ j > off THEN d.Cq[j - off][i]
                    ELSE IF i > nn /\ i <= nn + mm /\ j <= nn THEN d.Cq[i - nn][j]
                    ELSE Zero])])
                : nn \in {d.nv}, mm \in {d.nc},
                  off \in {IF mode = 2 THEN d.nv + d.nc ELSE d.nv} })
          : d \in {d0} })

(***************************************************************************)
(* ChInteriorPoint: build options                                          *)
(***************************************************************************)
ADD_COMPLIANCE == FALSE

REUSE_OLD_SOLUTIONS == FALSE

(***************************************************************************)
(* ChInteriorPoint: helpers.  s is the record of the solver's members.     *)
(***************************************************************************)
\* ChMatrixDynamic::Resize: a matrix whose size changes is reallocated and
\* zeroed, one whose size stays is left alone
Resize(v0, len) == The({ IF Len(v) = len THEN v ELSE FillElem(len, Zero) : v \in {v0} })

KKTdim(method, nn, mm) == IF method = "STANDARD" THEN 2 * mm + nn ELSE nn + mm

multiplyA(s0, vect_in, vect_out) ==
    The({ IF s.KKT_solve_method \in {"STANDARD", "AUGMENTED"}
          THEN MatMultiplyClipped(s.BigMat, vect_in, s.n + 1, s.n + s.m, 1, s.n)
          ELSE vect_out
          : s \in {s0} })

\* Variant: the columns of the AUGMENTED layout are read in both layouts
multiplyNegAT_augmented_columns(s0, vect_in, vect_out) ==
    The({ IF s.KKT_solve_method \in {"STANDARD", "AUGMENTED"}
          THEN MatMultiplyClipped(s.BigMat, vect_in, 1, s.n, s.n + 1, s.n + s.m)
          ELSE vect_out
          : s \in {s0} })

multiplyNegAT(s0, vect_in, vect_out) ==
    The({ CASE s.KKT_solve_method = "STANDARD" ->
                  MatMultiplyClipped(s.BigMat, vect_in, 1, s.n, s.n + s.m + 1, s.n + 2 * s.m)
            [] s.KKT_solve_method = "AUGMENTED" ->
                  MatMultiplyClipped(s.BigMat, vect_in, 1, s.n, s.n + 1, s.n + s.m)
            [] OTHER -> vect_out
          : s \in {s0} })

multiplyG(s0, vect_in, vect_out) ==
    The({ IF s.KKT_solve_method \in {"STANDARD", "AUGMENTED"}
          THEN MatMultiplyClipped(s.BigMat, vect_in, 1, s.n, 1, s.n)
          ELSE vect_out
          : s \in {s0} })

make_positive_definite(s0) ==
    The({ The({ [s EXCEPT !.BigMat =
                    Tuple([i \in 1..Len(s.BigMat) |-> Tuple([j \in 1..Len(s.BigMat) |->
                        IF i <= s.n /\ j > offset_AT_col /\ j <= offset_AT_col + s.m
                        THEN RNeg(s.BigMat[i][j]) ELSE s.BigMat[i][j]])])]
                : offset_AT_col \in {IF s.KKT_solve_method = "STANDARD"
                                     THEN s.n + s.m ELSE s.n} })
          : s \in {s0} })

\* Variant: the vectors of length m are resized under the test on n
reset_dimensions_one_test(s0, n_old, m_old) ==
    The({ The({ IF s.KKT_solve_method \in {"STANDARD", "AUGMENTED"}
                THEN [s3 EXCEPT !.BigMat = ZeroMat(N, N), !.rhs_sol = Resize(@, N)]
                ELSE s3
                : N \in {KKTdim(s.KKT_solve_method, s.n, s.m)},
                  s3 \in {[s EXCEPT
                      !.x = IF n_old # s.n THEN Resize(@, s.n) ELSE @,
                      !.Dx = IF n_old # s.n THEN Resize(@, s.n) ELSE @,
                      !.c = IF n_old # s.n THEN Resize(@, s.n) ELSE @,
                      !.rd = IF n_old # s.n THEN Resize(@, s.n) ELSE @,
                      !.vectn = IF n_old # s.n THEN Resize(@, s.n) ELSE @,
                      !.y = IF n_old # s.n THEN Resize(@, s.m) ELSE @,
                      !.lam = IF n_old # s.n THEN Resize(@, s.m) ELSE @,
                      !.Dy = IF n_old # s.n THEN Resize(@, s.m) ELSE @,
                      !.Dlam = IF n_old # s.n THEN Resize(@, s.m) ELSE @,
                      !.b = IF n_old # s.n THEN Resize(@, s.m) ELSE @,
                      !.rp = IF n_old # s.n THEN Resize(@, s.m) ELSE @,
                      !.rpd = IF n_old # s.n THEN Resize(@, s.m) ELSE @,
                      !.vectm = IF n_old # s.n THEN Resize(@, s.m) ELSE @,
                      !.sol_chrono = Resize(@, IF s.SKIP_CONTACTS_UV
                                               THEN s.n + 3 * s.m ELSE s.n + s.m)]} })
          : s \in {s0} })

reset_dimensions(s0, n_old, m_old) ==
    The({ The({ IF s.KKT_solve_method \in {"STANDARD", "AUGMENTED"}
                THEN [s3 EXCEPT !.BigMat = ZeroMat(N, N), !.rhs_sol = Resize(@, N)]
                ELSE s3
                : N \in {KKTdim(s.KKT_solve_method, s.n, s.m)},
                  s3 \in {[s EXCEPT
                      !.x = IF n_old # s.n THEN Resize(@, s.n) ELSE @,
                      !.Dx = IF n_old # s.n THEN Resize(@, s.n) ELSE @,
                      !.c = IF n_old # s.n THEN Resize(@, s.n) ELSE @,
                      !.rd = IF n_old # s.n THEN Resize(@, s.n) ELSE @,
                      !.vectn = IF n_old # s.n THEN Resize(@, s.n) ELSE @,
                      !.y = IF m_old # s.m THEN Resize(@, s.m) ELSE @,
                      !.lam = IF m_old # s.m THEN Resize(@, s.m) ELSE @,
                      !.Dy = IF m_old # s.m THEN Resize(@, s.m) ELSE @,
                      !.Dlam = IF m_old # s.m THEN Resize(@, s.m) ELSE @,
                      !.b = IF m_old # s.m THEN Resize(@, s.m) ELSE @,
                      !.rp = IF m_old # s.m THEN Resize(@, s.m) ELSE @,
                      !.rpd = IF m_old # s.m THEN Resize(@, s.m) ELSE @,
                      !.vectm = IF m_old # s.m THEN Resize(@, s.m) ELSE @,
                      !.sol_chrono = Resize(@, IF s.SKIP_CONTACTS_UV
                                               THEN s.n + 3 * s.m ELSE s.n + s.m)]} })
          : s \in {s0} })

\* Update rp, rd, and mu from x, y, lam and the problem matrices
fullupdate_residual(s0) ==
    The({ The({ [s EXCEPT !.rp = VSub(VSub(multiplyA(s, s.x, s.rp), s.y), s.b),
                          !.vectn = vn,
                          !.rd = VAdd(VAdd(multiplyG(s, s.x, s.rd), s.c), vn),
                          !.mu = RDiv(MatrDot(s.y, s.lam), I(s.m))]
                : vn \in {multiplyNegAT(s, s.lam, s.vectn)} })
          : s \in {s0} })

RECURSIVE StepLoop(_, _, _, _, _)
StepLoop(vect, Dvect, eta, row_sel, alpha0) ==
    The({ IF row_sel > Len(vect) THEN alpha
          ELSE IF Top \in {vect[row_sel], Dvect[row_sel], eta, alpha} THEN Top
          ELSE IF RLt(Dvect[row_sel], Zero)
               THEN The({ IF alfa_temp = Top THEN Top
                          ELSE StepLoop(vect, Dvect, eta, row_sel + 1,
                                   IF RLt(alfa_temp, alpha) THEN alfa_temp ELSE alpha)
                          : alfa_temp \in {RDiv(RMul(RNeg(eta), vect[row_sel]),
                                                Dvect[row_sel])} })
               ELSE StepLoop(vect, Dvect, eta, row_sel + 1, alpha)
          : alpha \in {alpha0} })

\* Variant: the step to the boundary is capped at 1 first and shortened by eta
\* afterwards
find_Newton_step_length_eta_after_cap(vect0, Dvect0, eta0) ==
    The({ The({ IF Top \in {alpha, eta} THEN Top
                ELSE IF RLt(Zero, alpha) THEN RMul(eta, alpha) ELSE Zero
                : alpha \in {StepLoop(vect, Dvect, One, 1, One)} })
          : vect \in {vect0}, Dvect \in {Dvect0}, eta \in {eta0} })

find_Newton_step_length(vect0, Dvect0, eta0) ==
    The({ The({ IF alpha = Top THEN Top ELSE IF RLt(Zero, alpha) THEN alpha ELSE Zero
                : alpha \in {StepLoop(vect, Dvect, eta, 1, One)} })
          : vect \in {vect0}, Dvect \in {Dvect0}, eta \in {eta0} })


(***************************************************************************)
(* ChInteriorPoint::KKTsolve.  choice is the outcome of the engine call.   *)
(***************************************************************************)
\* Variant: the lam and y diagonals are written, the -identity block is not
RECURSIVE StandardDiagonals_without_identity(_, _, _)
StandardDiagonals_without_identity(s, Z0, diag_sel) ==
    The({ IF diag_sel > s.m THEN Z
          ELSE StandardDiagonals_without_identity(s,
                  SetElement(SetElement(Z,
                      s.n + s.m + diag_sel, s.n + diag_sel, s.lam[diag_sel]),
                      s.n + s.m + diag_sel, s.n + s.m + diag_sel, s.y[diag_sel]),
                  diag_sel + 1)
          : Z \in {Z0} })

RECURSIVE StandardDiagonals(_, _, _)
StandardDiagonals(s, Z0, diag_sel) ==
    The({ IF diag_sel > s.m THEN Z
          ELSE StandardDiagonals(s,
                  SetElement(SetElement(SetElement(Z,
                      s.n + s.m + diag_sel, s.n + diag_sel, s.lam[diag_sel]),
                      s.n + s.m + diag_sel, s.n + s.m + diag_sel, s.y[diag_sel]),
                      s.n + diag_sel, s.n + diag_sel, I(-1)),
                  diag_sel + 1)
          : Z \in {Z0} })

\* Variant: the diagonal holds the product lam * y
RECURSIVE AugmentedDiagonal_product(_, _, _)
AugmentedDiagonal_product(s, Z0, diag_sel) ==
    The({ IF diag_sel > s.m THEN Z
          ELSE AugmentedDiagonal_product(s,
                  SetElement(Z, s.n + diag_sel, s.n + diag_sel,
                             RMul(s.lam[diag_sel], s.y[diag_sel])),
                  diag_sel + 1)
          : Z \in {Z0} })

RECURSIVE AugmentedDiagonal(_, _, _)
AugmentedDiagonal(s, Z0, diag_sel) ==
    The({ IF diag_sel > s.m THEN Z
          ELSE AugmentedDiagonal(s,
                  SetElement(Z, s.n + diag_sel, s.n + diag_sel,
                             RDiv(s.y[diag_sel], s.lam[diag_sel])),
                  diag_sel + 1)
          : Z \in {Z0} })

\* Variant: the engine is called on the problem it was given before
EngineAfterCall_problem_kept(eng, Z, rhs, res) ==
    [eng EXCEPT !.calls = @ + 1, !.status = res.status,
                !.failures = @ + (IF res.status = 0 THEN 0 ELSE 1)]

\* the engine member after SetProblem(Z, rhs) and MumpsCall()
EngineAfterCall(eng, Z, rhs, res) ==
    [eng EXCEPT !.calls = @ + 1, !.status = res.status,
                !.failures = @ + (IF res.status = 0 THEN 0 ELSE 1),
                !.mat = Z, !.rhs_in = rhs]

KKTsolveStandard(s, sigma, choice) ==
    The({ The({ The({ [s EXCEPT !.BigMat = Z, !.vectm = vm, !.rpd = rpd1, !.rhs_sol = res.sol,
                          !.mumps_engine = EngineAfterCall(@, Z, rhs, res),
                          !.Dx = Tuple([row_sel \in 1..s.n |-> res.sol[row_sel]]),
                          !.Dy = Tuple([row_sel \in 1..s.m |-> res.sol[row_sel + s.n]]),
                          !.Dlam = Tuple([row_sel \in 1..s.m |-> res.sol[row_sel + s.n + s.m]])]
                      : res \in {MumpsCall(Z, rhs, choice)} })
                : rhs \in {Tuple([row_sel \in 1..(s.n + 2 * s.m) |->
                             IF row_sel <= s.n THEN RNeg(s.rd[row_sel])
                             ELSE IF row_sel <= s.n + s.m THEN RNeg(s.rp[row_sel - s.n])
                             ELSE RNeg(rpd1[row_sel - s.n - s.m])])} })
          : Z \in {StandardDiagonals(s, s.BigMat, 1)},
            vm \in {IF sigma # Zero
                    THEN MatrAddScalar(MatrScaleVec(s.Dlam, s.Dy), RNeg(RMul(sigma, s.mu)))
                    ELSE s.vectm},
            rpd1 \in {IF sigma # Zero
                      THEN VAdd(s.rpd, MatrAddScalar(MatrScaleVec(s.Dlam, s.Dy),
                                                     RNeg(RMul(sigma, s.mu))))
                      ELSE MatrScaleVec(s.y, s.lam)} })

KKTsolveAugmented(s, sigma, choice) ==
    The({ The({ The({ [s1 EXCEPT !.Dy = VAdd(multiplyA(s1, s1.Dx, s1.Dy), s1.rp)]
                      : s1 \in {[s EXCEPT !.BigMat = Z, !.rhs_sol = res.sol,
                                    !.mumps_engine = EngineAfterCall(@, Z, rhs, res),
                                    !.Dx = Tuple([row_sel \in 1..s.n |-> res.sol[row_sel]]),
                                    !.Dlam = Tuple([row_sel \in 1..s.m |->
                                                       res.sol[row_sel + s.n]])]} })
                : res \in {MumpsCall(Z, rhs, choice)} })
          : Z \in {AugmentedDiagonal(s, s.BigMat, 1)},
            rhs \in {Tuple([row_sel \in 1..(s.n + s.m) |->
                       IF row_sel <= s.n THEN RNeg(s.rd[row_sel])
                       ELSE IF sigma # Zero
                            THEN RAdd(RSub(RNeg(s.rp[row_sel - s.n]), s.y[row_sel - s.n]),
                                      RDiv(RMul(sigma, s.mu), s.lam[row_sel - s.n]))
                            ELSE RSub(RNeg(s.rp[row_sel - s.n]), s.y[row_sel - s.n])])} })

\* the conversion of a double to int: the fractional part is discarded; the
\* result for a value that is not finite is not defined and is left unknown
Truncate(a0) ==
    The({ IF ~IsFin(a) THEN Top
          ELSE IF a[1] >= 0 THEN I(a[1] \div a[2]) ELSE I(-((-a[1]) \div a[2]))
          : a \in {a0} })

\* SetElement(row, col, temp, false): temp is added to the element
AddElement(M, i, j, v) == [M EXCEPT ![i][j] = RAdd(@, v)]

\* the loop over el_sel for one element of BigMat, temp being an int
RECURSIVE NormalElement(_, _, _, _, _, _)
NormalElement(s, row_sel, col_sel, el_sel, temp0, Z0) ==
    The({ IF el_sel > s.m THEN Z
          ELSE The({ NormalElement(s, row_sel, col_sel, el_sel + 1, temp,
                                   IF temp # Zero THEN AddElement(Z, row_sel, col_sel, temp)
                                   ELSE Z)
                     : temp \in {Truncate(RAdd(temp0,
                                    RMul(RMul(RDiv(s.lam[el_sel], s.y[el_sel]),
                                              s.SmallMat[el_sel][row_sel]),
                                         s.SmallMat[el_sel][col_sel])))} })
          : Z \in {Z0} })

\* the loops over row_sel and col_sel, k counting the elements row by row
RECURSIVE NormalElements(_, _, _)
NormalElements(s, k, Z0) ==
    The({ IF k >= s.n * s.n THEN Z
          ELSE NormalElements(s, k + 1,
                              NormalElement(s, (k \div s.n) + 1, (k % s.n) + 1, 1, Zero, Z))
          : Z \in {Z0} })

\* no system is solved: Dx, Dy and Dlam stay as they are
KKTsolveNormal(s) == [s EXCEPT !.BigMat = NormalElements(s, 0, @)]

KKTsolve(s0, sigma0, choice) ==
    The({ CASE s.KKT_solve_method = "STANDARD" -> KKTsolveStandard(s, sigma, choice)
            [] s.KKT_solve_method = "AUGMENTED" -> KKTsolveAugmented(s, sigma, choice)
            [] s.KKT_solve_method = "NORMAL" -> KKTsolveNormal(s)
          : s \in {s0}, sigma \in {sigma0} })

(***************************************************************************)
(* Starting point (Nocedal-Wright p. 484-485)                              *)
(***************************************************************************)
\* Variant: the absolute value without the floor of 1
Clamp_no_floor(v0) == RAbs(v0)

Clamp(v0) == The({ IF RLt(RAbs(v), One) THEN One ELSE RAbs(v) : v \in {v0} })

starting_point_Nocedal(s0, n_old, m_old, choice) ==
    The({ The({ The({ fullupdate_residual(
                         [s3 EXCEPT !.y = Tuple([row_sel \in 1..s3.m |->
                                             Clamp(RAdd(s3.y[row_sel], s3.Dy[row_sel]))]),
                                    !.lam = Tuple([row_sel \in 1..s3.m |->
                                             Clamp(RAdd(s3.lam[row_sel], s3.Dlam[row_sel]))])])
                      : s3 \in {KKTsolve(fullupdate_residual(
                                   [s1 EXCEPT !.y = VSub(multiplyA(s1, s1.x, s1.y), s1.b)]),
                                   Zero, choice)} })
                : s1 \in {[s EXCEPT
                      !.x = IF n_old # s.n \/ s.solver_call = 0 \/ ~REUSE_OLD_SOLUTIONS
                            THEN FillElem(s.n, One) ELSE @,
                      !.lam = IF m_old # s.m \/ s.solver_call = 0 \/ ~REUSE_OLD_SOLUTIONS
                              THEN FillElem(s.m, One) ELSE @]} })
          : s \in {s0} })

(***************************************************************************)
(* initialize: load the system, then either solve the unconstrained        *)
(* problem directly or compute the starting point                          *)
(***************************************************************************)
\* the switch that loads BigMat, then the load of c and b
\* Variant: c and b are loaded as the descriptor stores them, without the
\* change of sign
LoadSystem_keeps_signs(s0, d) ==
    The({ [(CASE s.KKT_solve_method = "STANDARD" ->
                    make_positive_definite([s EXCEPT !.BigMat = ConvertToMatrixForm(d, 2)])
              [] s.KKT_solve_method = "AUGMENTED" ->
                    make_positive_definite([s EXCEPT !.BigMat = ConvertToMatrixForm(d, 1)])
              [] s.KKT_solve_method = "NORMAL" ->
                    [s EXCEPT !.SmallMat = d.Cq, !.BigMat = d.M])
             EXCEPT !.c = d.f, !.b = d.bi]
          : s \in {s0} })

LoadSystem(s0, d) ==
    The({ [(CASE s.KKT_solve_method = "STANDARD" ->
                    make_positive_definite([s EXCEPT !.BigMat = ConvertToMatrixForm(d, 2)])
              [] s.KKT_solve_method = "AUGMENTED" ->
                    make_positive_definite([s EXCEPT !.BigMat = ConvertToMatrixForm(d, 1)])
              [] s.KKT_solve_method = "NORMAL" ->
                    [s EXCEPT !.SmallMat = d.Cq, !.BigMat = d.M])
             EXCEPT !.c = MatrScale(d.f, I(-1)), !.b = MatrScale(d.bi, I(-1))]
          : s \in {s0} })

initialize(s0, d, choice) ==
    The({ The({ IF s3.m = 0
                THEN The({ The({ [s3 EXCEPT !.rhs_sol = res.sol,
                                     !.mumps_engine = EngineAfterCall(@, s3.BigMat, rhs, res)]
                                 : res \in {MumpsCall(s3.BigMat, rhs, choice)} })
                           : rhs \in {Tuple([row_sel \in 1..Len(s3.rhs_sol) |->
                                        IF row_sel <= s3.n THEN RNeg(s3.c[row_sel])
                                        ELSE s3.rhs_sol[row_sel]])} })
                ELSE starting_point_Nocedal(s3, n_old, m_old, choice)
                : n_old \in {s.n}, m_old \in {s.m},
                  s3 \in {LoadSystem(reset_dimensions(
                              [s EXCEPT !.n = CountActiveVariables(d),
                                        !.m = CountActiveConstraints(d)], s.n, s.m), d)} })
          : s \in {s0} })


(***************************************************************************)
(* iterate: one predictor-corrector iteration.  exp is not a rational      *)
(* function: exp(-t) is drawn from the two bounds                          *)
(* 1 - t <= exp(-t) <= 1 / (1 + t)   (t >= 0).                             *)
(***************************************************************************)
ExpPick == {"lower", "upper"}

ExpNeg(t0, pick) ==
    The({ IF pick = "upper" /\ RLe(Zero, t) THEN RInv(RAdd(One, t))
          ELSE IF RLt(One, t) THEN Zero ELSE RSub(One, t)
          : t \in {t0} })

EtaFixed == R(95, 100)

Eta(s, pick) ==
    IF s.ADAPTIVE_ETA
    THEN RAdd(RMul(ExpNeg(RMul(s.mu, I(s.m)), pick), R(1, 10)), R(9, 10))
    ELSE EtaFixed

Cube(v0) == The({ RMul(RMul(v, v), v) : v \in {v0} })

\* the step lengths of a phase: <<primal, dual>>
StepLengths(s, eta0) ==
    The({ The({ IF s.EQUAL_STEP_LENGTH
                THEN <<RMin(prim, dual), RMin(prim, dual)>>
                ELSE <<prim, dual>>
                : prim \in {find_Newton_step_length(s.y, s.Dy, eta)},
                  dual \in {find_Newton_step_length(s.lam, s.Dlam, eta)} })
          : eta \in {eta0} })

\* Variant: the residual update without the term for different step lengths
VariableUpdate_equal_steps(s0, alfa_corr_prim, alfa_corr_dual) ==
    The({ [s EXCEPT !.rp = MatrScale(@, RSub(One, alfa_corr_prim)),
                    !.rd = MatrScale(@, RSub(One, alfa_corr_dual)),
                    !.mu = RDiv(MatrDot(s.y, s.lam), I(s.m))]
          : s \in {s0} })

\* the "Variable update" block that ends iterate
VariableUpdate(s0, alfa_corr_prim, alfa_corr_dual) ==
    The({ The({ IF s.EQUAL_STEP_LENGTH THEN s5
                ELSE The({ [s5 EXCEPT !.vectn = vn_corr, !.rd = VAdd(@, vn_corr)]
                           : vn_corr \in {MatrScale(multiplyG(s5, s5.Dx, s5.vectn),
                                                   RSub(alfa_corr_prim, alfa_corr_dual))} })
                : s5 \in {[s EXCEPT !.rp = MatrScale(@, RSub(One, alfa_corr_prim)),
                                    !.rd = MatrScale(@, RSub(One, alfa_corr_dual)),
                                    !.mu = RDiv(MatrDot(s.y, s.lam), I(s.m))]} })
          : s \in {s0} })

\* the correction phase and the variable update, from the state that the
\* prediction phase leaves
Correction(s20, mu_pred0, choice_corr, pick) ==
    The({ The({ The({ The({ The({ IF Top \in {mu_pred, sigma, eta, alfa_corr[1], alfa_corr[2]}
                                  THEN [s6 EXCEPT !.mu = Top] ELSE s6
                                  : s6 \in {VariableUpdate(
                                       [s3 EXCEPT
                                          !.x = VAdd(MatrScale(s3.Dx, alfa_corr[1]), s3.x),
                                          !.y = VAdd(MatrScale(s3.Dy, alfa_corr[1]), s3.y),
                                          !.lam = VAdd(MatrScale(s3.Dlam, alfa_corr[2]), s3.lam)],
                                       alfa_corr[1], alfa_corr[2])} })
                            : alfa_corr \in {StepLengths(s3, eta)} })
                      : eta \in {Eta(s3, pick)} })
                : s3 \in {KKTsolve(s2, sigma, choice_corr)} })
          : sigma \in {Cube(RDiv(mu_pred0, s20.mu))}, s2 \in {s20}, mu_pred \in {mu_pred0} })

\* the state the prediction phase leaves when ONLY_PREDICT is set
PredictionUpdate(s1, alfa_pred, y_pred, lam_pred, mu_pred) ==
    The({ [s1 EXCEPT !.x = VAdd(MatrScale(s1.Dx, alfa_pred[1]), s1.x),
                     !.y = y_pred,
                     !.lam = lam_pred,
                     !.rp = MatrScale(@, RSub(One, alfa_pred[1])),
                     !.vectn = vn_pred,
                     !.rd = VAdd(MatrScale(@, RSub(One, alfa_pred[2])), vn_pred),
                     !.mu = mu_pred]
          : vn_pred \in {MatrScale(multiplyG(s1, s1.Dx, s1.vectn),
                                   RSub(alfa_pred[1], alfa_pred[2]))} })

iterate(s0, choice_pred, choice_corr, pick) ==
    The({ The({ The({ The({ The({ IF Top \in {alfa_pred[1], alfa_pred[2]}
                                  THEN [next EXCEPT !.mu = Top] ELSE next
                                  : next \in {Correction(
                                       IF s1.ONLY_PREDICT
                                       THEN PredictionUpdate(s1, alfa_pred, y_pred, lam_pred,
                                                             mu_pred)
                                       ELSE s1,
                                       mu_pred, choice_corr, pick)} })
                            : mu_pred \in {RDiv(MatrDot(y_pred, lam_pred), I(s1.m))} })
                      : y_pred \in {VAdd(MatrScale(s1.Dy, alfa_pred[1]), s1.y)},
                        lam_pred \in {VAdd(MatrScale(s1.Dlam, alfa_pred[2]), s1.lam)} })
                : alfa_pred \in {StepLengths(s1, One)} })
          : s1 \in {KKTsolve(s0, Zero, choice_pred)} })

(***************************************************************************)
(* Exit test.  NormTwo(v) / k < tol is decided on the squares, after       *)
(* scaling each component by k * tol.                                      *)
(***************************************************************************)
\* v / (k * tol)
Scaled(v0, k, tol0) ==
    The({ Tuple([i \in 1..Len(v) |-> RDiv(v[i], RMul(I(k), tol))]) : v \in {v0}, tol \in {tol0} })

NnormBelow(v, k, tol) ==
    /\ k > 0
    /\ RLt(Zero, tol)
    /\ \E sc \in {Scaled(v, k, tol)} :
          /\ \A i \in 1..Len(sc) : RLt(RAbs(sc[i]), One)
          /\ RLt(MatrDot(sc, sc), One)

\* the comparison NormTwo(v) / k < tol cannot be decided
NnormUnknown(v, k, tol) ==
    \E sc \in {Scaled(v, k, tol)} :
       \/ VHasTop(sc)
       \/ (\A i \in 1..Len(sc) : RLt(RAbs(sc[i]), One)) /\ MatrDot(sc, sc) = Top

\* a double given by a decimal literal mant * 10^exp10, and its value
Dec(mant, exp10) == [mant |-> mant, exp10 |-> exp10]

RECURSIVE Pow10(_)
Pow10(e) == IF e = 0 THEN 1 ELSE 10 * Pow10(e - 1)

DecToRat(d) ==
    IF d.exp10 >= 0 THEN I(d.mant * Pow10(d.exp10)) ELSE R(d.mant, Pow10(-d.exp10))

\* Variant: the disabled branch of check_exit_conditions with its default
\* argument only_mu = true
check_exit_conditions_only_mu(s0) ==
    \E s \in {s0} : RLt(s.mu, DecToRat(s.mu_tolerance))

check_exit_conditions(s0) ==
    \E s \in {s0} :
       \E relative_duality_gap \in {MatrDot(s.y, s.lam)} :
          /\ RLt(relative_duality_gap, DecToRat(s.mu_tolerance))
          /\ NnormBelow(s.rp, s.m, DecToRat(s.IPtolerances.rp_nnorm))
          /\ NnormBelow(s.rd, s.n, DecToRat(s.IPtolerances.rd_nnorm))

SetTolerances(s, rp_tol, rd_tol, complementarity_tol) ==
    [s EXCEPT !.IPtolerances = [rp_nnorm |-> rp_tol, rd_nnorm |-> rd_tol],
              !.mu_tolerance = complementarity_tol]

\* Variant: the multipliers are emitted without the change of sign
generate_solution_positive_lam(s0) ==
    The({ [s EXCEPT !.sol_chrono =
              Tuple([k \in 1..Len(s.sol_chrono) |->
                  IF k <= s.n THEN s.x[k]
                  ELSE IF s.SKIP_CONTACTS_UV
                       THEN IF k <= s.n + 3 * s.m
                            THEN IF (k - s.n - 1) % 3 = 0
                                 THEN s.lam[((k - s.n - 1) \div 3) + 1]
                                 ELSE Zero
                            ELSE s.sol_chrono[k]
                       ELSE IF k <= s.n + s.m THEN s.lam[k - s.n]
                            ELSE s.sol_chrono[k]])]
          : s \in {s0} })

\* copy solution from the variables used for IP to Chrono variables
generate_solution(s0) ==
    The({ [s EXCEPT !.sol_chrono =
              Tuple([k \in 1..Len(s.sol_chrono) |->
                  IF k <= s.n THEN s.x[k]
                  ELSE IF s.SKIP_CONTACTS_UV
                       THEN IF k <= s.n + 3 * s.m
                            THEN IF (k - s.n - 1) % 3 = 0
                                 THEN RNeg(s.lam[((k - s.n - 1) \div 3) + 1])
                                 ELSE Zero
                            ELSE s.sol_chrono[k]
                       ELSE IF k <= s.n + s.m THEN RNeg(s.lam[k - s.n])
                            ELSE s.sol_chrono[k]])]
          : s \in {s0} })

(***************************************************************************)
(* ChSparsityPatternLearner: a matrix that records positions only.  l is   *)
(* the record of its members; rows, columns and list entries count from 0  *)
(* as in the source, list number k of row_lists is row_lists[k + 1].       *)
(***************************************************************************)
EmptyLists(count) == Tuple([k \in 1..count |-> <<>>])

ChSparsityPatternLearner(nrows, ncols, row_major_format_in) ==
    [m_num_rows |-> nrows, m_num_cols |-> ncols, m_nnz |-> 0,
     row_major_format |-> row_major_format_in,
     row_lists |-> EmptyLists(IF row_major_format_in THEN nrows ELSE ncols)]

\* row_lists[insrow] lies inside the vector
InsideRowLists(l, insrow) == insrow + 1 \in 1..Len(l.row_lists)

\* SetElement with insrow inside the vector
LearnerSetElement(l, insrow, inscol) ==
    [l EXCEPT !.row_lists[insrow + 1] = Append(@, inscol)]

LearnerReset(l, row, col) ==
    [l EXCEPT !.m_num_rows = row, !.m_num_cols = col,
              !.row_lists = EmptyLists(IF l.row_major_format THEN row ELSE col)]

\* std::list::sort: the elements in ascending order
RECURSIVE InsertAscending(_, _)
InsertAscending(sorted, v) ==
    IF sorted = <<>> THEN <<v>>
    ELSE IF v < Head(sorted) THEN <<v>> \o sorted
    ELSE <<Head(sorted)>> \o InsertAscending(Tail(sorted), v)

RECURSIVE sort(_)
sort(list) == IF list = <<>> THEN <<>> ELSE InsertAscending(sort(Tail(list)), Head(list))

\* Variant: duplicates are kept
unique_keeps_duplicates(list) == list

\* std::list::unique: of every run of equal consecutive elements the first stays
RECURSIVE unique(_)
unique(list) ==
    IF Len(list) <= 1 THEN list
    ELSE IF list[1] = list[2] THEN unique(Tail(list))
    ELSE <<Head(list)>> \o unique(Tail(list))

\* the learner after GetSparsityPattern; the lists are what the call returns
GetSparsityPattern(l) ==
    [l EXCEPT !.row_lists = Tuple([k \in 1..Len(l.row_lists) |-> unique(sort(l.row_lists[k]))])]

RECURSIVE SumOfSizes(_, _)
SumOfSizes(lists, k) == IF k = 0 THEN 0 ELSE SumOfSizes(lists, k - 1) + Len(lists[k])

\* the learner after GetNNZ; m_nnz is what the call returns
GetNNZ(l) == [l EXCEPT !.m_nnz = SumOfSizes(l.row_lists, Len(l.row_lists))]

\* no learner is in use
NoLearner == ChSparsityPatternLearner(0, 0, TRUE)

(***************************************************************************)
(* ChCSR3Matrix.  mat is the record of its members.  Rows, columns, slots  *)
(* and offsets count from 0 as in the source: slot k of trailIndex, values *)
(* and initialized_element is element k + 1 of the sequence, leadIndex[i]  *)
(* is element i + 1.  A slot that is not initialized carries the trailing  *)
(* index -1.  Values are small integers, which a double holds exactly.     *)
(***************************************************************************)
LeadDim(mat) == IF mat.row_major_format THEN mat.m_num_rows ELSE mat.m_num_cols

TrailDim(mat) == IF mat.row_major_format THEN mat.m_num_cols ELSE mat.m_num_rows

\* len integers equally spaced from initial_number to final_number, both included
distribute_integer_range_on_vector(len, initial_number, final_number) ==
    Tuple([i \in 1..len |->
              IF len = 1 THEN initial_number
              ELSE initial_number + ((i - 1) * (final_number - initial_number)) \div (len - 1)])

\* the arrays reallocated for lead_dim x trail_dim with nonzeros slots, none initialized
reset_arrays(mat, lead_dim, trail_dim, nonzeros) ==
    [mat EXCEPT !.m_num_rows = IF mat.row_major_format THEN lead_dim ELSE trail_dim,
                !.m_num_cols = IF mat.row_major_format THEN trail_dim ELSE lead_dim,
                !.leadIndex = distribute_integer_range_on_vector(lead_dim + 1, 0, nonzeros),
                !.trailIndex = Tuple([k \in 1..nonzeros |-> -1]),
                !.values = Tuple([k \in 1..nonzeros |-> 0]),
                !.initialized_element = Tuple([k \in 1..nonzeros |-> FALSE]),
                !.isCompressed = FALSE,
                !.m_lock_broken = FALSE]

ChCSR3Matrix(nrows, ncols, row_major_format_on, nonzeros) ==
    reset_arrays([m_num_rows |-> nrows, m_num_cols |-> ncols,
                  row_major_format |-> row_major_format_on,
                  leadIndex |-> <<>>, trailIndex |-> <<>>, values |-> <<>>,
                  initialized_element |-> <<>>, isCompressed |-> FALSE,
                  m_lock |-> FALSE, m_lock_broken |-> FALSE],
                 IF row_major_format_on THEN nrows ELSE ncols,
                 IF row_major_format_on THEN ncols ELSE nrows,
                 nonzeros)

GetTrailingIndexLength(mat) == mat.leadIndex[LeadDim(mat) + 1]

CsrGetNNZ(mat) == GetTrailingIndexLength(mat)

\* the slots of the window of leading index lead_sel
Window(mat, lead_sel) == (mat.leadIndex[lead_sel + 1])..(mat.leadIndex[lead_sel + 2] - 1)

\* the slots that hold the element (lead_sel, trail_sel): one or none
SlotsOf(mat, lead_sel, trail_sel) ==
    {k \in Window(mat, lead_sel) :
        mat.initialized_element[k + 1] /\ mat.trailIndex[k + 1] = trail_sel}

CsrGetElement(mat, row_sel, col_sel) ==
    The({ IF slots = {} THEN 0 ELSE mat.values[The(slots) + 1]
          : slots \in {SlotsOf(mat, IF mat.row_major_format THEN row_sel ELSE col_sel,
                                    IF mat.row_major_format THEN col_sel ELSE row_sel)} })

\* the initialized elements of the window of leading index lead_sel, in slot order
RowEntries(mat, lead_sel) ==
    The({ Tuple([t \in 1..Cardinality(slots) |->
              The({ [trail |-> mat.trailIndex[k + 1], value |-> mat.values[k + 1]]
                    : k \in {q \in slots : Cardinality({o \in slots : o < q}) = t - 1} })])
          : slots \in {{k \in Window(mat, lead_sel) : mat.initialized_element[k + 1]}} })

AllRowEntries(mat) == Tuple([i \in 1..LeadDim(mat) |-> RowEntries(mat, i - 1)])

\* the arrays that hold the elements rows[i + 1] at the front of the window
\* [lead[i + 1], lead[i + 2]) of every leading index i, in size slots
EmitRows(mat, rows, lead, size) ==
    The({ [mat EXCEPT !.leadIndex = lead,
                      !.trailIndex = Tuple([k \in 1..size |->
                            IF at[k] = <<>> THEN -1 ELSE rows[at[k][1]][at[k][2]].trail]),
                      !.values = Tuple([k \in 1..size |->
                            IF at[k] = <<>> THEN 0 ELSE rows[at[k][1]][at[k][2]].value]),
                      !.initialized_element = Tuple([k \in 1..size |-> at[k] # <<>>])]
          : at \in {Tuple([k \in 1..size |->
                       The({ IF found = {} THEN <<>> ELSE The(found)
                             : found \in {{<<i, k - lead[i]>> : i \in
                                    {j \in 1..Len(rows) :
                                        /\ lead[j] <= k - 1 /\ k - 1 < lead[j + 1]
                                        /\ k - lead[j] <= Len(rows[j])}}} })])} })

\* the elements of a window with a new element of trailing index trail_sel
\* and value 0 at its place in ascending order
RECURSIVE InsertEntry(_, _)
InsertEntry(entries, trail_sel) ==
    IF entries = <<>> \/ trail_sel < Head(entries).trail
    THEN <<[trail |-> trail_sel, value |-> 0]>> \o entries
    ELSE <<Head(entries)>> \o InsertEntry(Tail(entries), trail_sel)

RECURSIVE SumOfCounts(_, _)
SumOfCounts(rows, k) == IF k = 0 THEN 0 ELSE SumOfCounts(rows, k - 1) + Len(rows[k])

\* copy_and_distribute: every window is emitted again into an arena larger by
\* storage_augm slots, the free slots being spread evenly over the windows
copy_and_distribute(mat, rows, storage_augm) ==
    The({ The({ EmitRows(mat, rows,
                         Tuple([i \in 1..(Len(rows) + 1) |->
                            IF i = Len(rows) + 1 THEN size
                            ELSE SumOfCounts(rows, i - 1) + (i - 1) * gap]),
                         size)
                : gap \in {(size - SumOfCounts(rows, Len(rows))) \div Len(rows)} })
          : size \in {Len(mat.trailIndex) + storage_augm} })

\* the first slot at or after slot from that is not initialized, -1 when there is none
\* (max_shifts keeps its default, the largest int: the search is not limited)
FirstFreeSlot(mat, from) ==
    The({ IF free = {} THEN -1 ELSE The({k \in free : \A o \in free : k <= o})
          : free \in {{k \in from..(GetTrailingIndexLength(mat) - 1) :
                          ~mat.initialized_element[k + 1]}} })

\* insert: a slot for the absent element (lead_sel, trail_sel) is made at its
\* place in the window: a free slot of the window that the neighbours
\* bracket is taken, else the elements are shifted towards the next free
\* slot, the windows crossed moving with them, else the arrays are reallocated
insert(mat, lead_sel, trail_sel, storage_augm) ==
    The({ The({ The({ [(IF hole >= 0
                        THEN EmitRows(mat, rows,
                                 Tuple([i \in 1..Len(mat.leadIndex) |->
                                    IF i - 1 > lead_sel /\ mat.leadIndex[i] <= hole
                                    THEN mat.leadIndex[i] + 1 ELSE mat.leadIndex[i]]),
                                 Len(mat.trailIndex))
                        ELSE copy_and_distribute(mat, rows, storage_augm))
                          EXCEPT !.isCompressed = FALSE,
                                 !.m_lock_broken = @ \/ mat.m_lock]
                      : hole \in {FirstFreeSlot(mat, place)} })
                : place \in {mat.leadIndex[lead_sel + 1] +
                                Cardinality({t \in 1..Len(old) : old[t].trail < trail_sel})},
                  rows \in {[AllRowEntries(mat) EXCEPT ![lead_sel + 1] = InsertEntry(@, trail_sel)]} })
          : old \in {RowEntries(mat, lead_sel)} })

\* insval written to the slot of (lead_sel, trail_sel), or added to its value
WriteSlot(mat, lead_sel, trail_sel, insval, overwrite) ==
    The({ [mat EXCEPT !.values[k + 1] = IF overwrite THEN insval ELSE @ + insval]
          : k \in SlotsOf(mat, lead_sel, trail_sel) })

CsrSetElement(mat, row_sel, col_sel, insval, overwrite, storage_augm) ==
    The({ IF SlotsOf(mat, lead_sel, trail_sel) # {}
          THEN WriteSlot(mat, lead_sel, trail_sel, insval, overwrite)
          ELSE WriteSlot(insert(mat, lead_sel, trail_sel, storage_augm),
                         lead_sel, trail_sel, insval, TRUE)
          : lead_sel \in {IF mat.row_major_format THEN row_sel ELSE col_sel},
            trail_sel \in {IF mat.row_major_format THEN col_sel ELSE row_sel} })

\* Compress: the initialized elements packed in order, the free slots purged
Compress(mat) ==
    The({ [EmitRows(mat, rows,
                    Tuple([i \in 1..(Len(rows) + 1) |-> SumOfCounts(rows, i - 1)]),
                    SumOfCounts(rows, Len(rows)))
              EXCEPT !.isCompressed = TRUE]
          : rows \in {AllRowEntries(mat)} })

\* Variant: the arrays are reallocated whatever the lock
CsrReset_ignores_lock(mat, nrows, ncols, nonzeros_hint) ==
    reset_arrays(mat, IF mat.row_major_format THEN nrows ELSE ncols,
                 IF mat.row_major_format THEN ncols ELSE nrows, nonzeros_hint)

\* Reset(nrows, ncols, nonzeros_hint)
CsrReset(mat, nrows, ncols, nonzeros_hint) ==
    IF mat.m_lock /\ nrows = mat.m_num_rows /\ ncols = mat.m_num_cols
    THEN [mat EXCEPT !.values = Tuple([k \in 1..Len(mat.values) |-> 0])]
    ELSE reset_arrays(mat, IF mat.row_major_format THEN nrows ELSE ncols,
                      IF mat.row_major_format THEN ncols ELSE nrows, nonzeros_hint)

SetSparsityPatternLock(mat, val) == [mat EXCEPT !.m_lock = val]

\* ChInteriorPoint::make_positive_definite on the arrays of BigMat (row-major):
\* the values of the slots of the first n windows whose trailing index lies in
\* the columns of the A' block change sign
\* Variant: the A' block is taken to start at column n in both layouts
make_positive_definite_arrays_one_offset(mat, n, m, method) ==
    [mat EXCEPT !.values = Tuple([k \in 1..Len(mat.values) |->
        IF /\ \E row_sel \in 0..(n - 1) : k - 1 \in Window(mat, row_sel)
           /\ mat.trailIndex[k] >= n /\ mat.trailIndex[k] < n + m
        THEN -mat.values[k] ELSE mat.values[k]])]

make_positive_definite_arrays(mat, n, m, method) ==
    The({ [mat EXCEPT !.values = Tuple([k \in 1..Len(mat.values) |->
              IF /\ \E row_sel \in 0..(n - 1) : k - 1 \in Window(mat, row_sel)
                 /\ mat.trailIndex[k] >= offset_AT_col
                 /\ mat.trailIndex[k] < offset_AT_col + m
              THEN -mat.values[k] ELSE mat.values[k]])]
          : offset_AT_col \in {IF method = "STANDARD" THEN n + m ELSE n} })

\* no matrix is in use: one built with the default arguments
NoCsr == ChCSR3Matrix(1, 1, TRUE, 1)

(***************************************************************************)
(* ChSolverMumps.  ms is the record of its members but m_mat, which is     *)
(* passed beside it.  The descriptor and the engine are external: the      *)
(* descriptor writes the non-zero elements of [M Cq'; Cq 0] row by row     *)
(* into the matrix it is given, after resetting it to the size of the      *)
(* system; the status the engine returns is an input.                      *)
(***************************************************************************)
\* the engine before its first job: the matrix bound to it, the last job and
\* INFOG(1) after it
NoMumpsEngine == [matrix |-> NoCsr, job |-> "INIT", INFOG1 |-> 0]

ChSolverMumps ==
    [m_engine |-> NoMumpsEngine, m_rhs_sol |-> <<>>,
     m_dim |-> 0, m_nnz |-> 0, m_solve_call |-> 0, m_setup_call |-> 0,
     m_lock |-> FALSE, m_force_sparsity_pattern_update |-> FALSE]

ForceSparsityPatternUpdate(ms, val) == [ms EXCEPT !.m_force_sparsity_pattern_update = val]

\* the elements of Z at the first k positions in row-major order written into mat
RECURSIVE WriteElements(_, _, _)
WriteElements(mat, Z, k) ==
    IF k = 0 THEN mat
    ELSE The({ IF Z[i + 1][j + 1] = Zero THEN prev
               ELSE CsrSetElement(prev, i, j, Z[i + 1][j + 1][1], TRUE, 1)
               : prev \in {WriteElements(mat, Z, k - 1)},
                 i \in {(k - 1) \div Len(Z)}, j \in {(k - 1) % Len(Z)} })

\* sysd.ConvertToMatrixForm(&m_mat, nullptr)
ConvertToMatrixFormCsr(mat, d) ==
    The({ WriteElements(CsrReset(mat, Len(Z), Len(Z), 0), Z, Len(Z) * Len(Z))
          : Z \in {ConvertToMatrixForm(d, 0)} })

RECURSIVE LearnElements(_, _, _)
LearnElements(l, Z, k) ==
    IF k = 0 THEN l
    ELSE The({ IF Z[i + 1][j + 1] = Zero THEN prev
               ELSE LearnerSetElement(prev, i, j)
               : prev \in {LearnElements(l, Z, k - 1)},
                 i \in {(k - 1) \div Len(Z)}, j \in {(k - 1) % Len(Z)} })

\* sysd.ConvertToMatrixForm(&sparsity_learner, nullptr)
ConvertToMatrixFormLearner(l, d) ==
    The({ LearnElements(LearnerReset(l, Len(Z), Len(Z)), Z, Len(Z) * Len(Z))
          : Z \in {ConvertToMatrixForm(d, 0)} })

\* sysd.ConvertToMatrixForm(nullptr, &m_rhs_sol)
ConvertToRhs(d) == d.f \o Tuple([i \in 1..Len(d.bi) |-> RNeg(d.bi[i])])

RECURSIVE JoinLists(_, _)
JoinLists(lists, k) == IF k = 0 THEN <<>> ELSE JoinLists(lists, k - 1) \o lists[k]

\* LoadSparsityPattern: the matrix takes the size and the pattern of the
\* learner, every element of the pattern being stored with the value 0
LoadSparsityPattern(mat, sparsity_learner) ==
    The({ [mat EXCEPT !.m_num_rows = sparsity_learner.m_num_rows,
                      !.m_num_cols = sparsity_learner.m_num_cols,
                      !.leadIndex = Tuple([i \in 1..(Len(lists) + 1) |-> SumOfSizes(lists, i - 1)]),
                      !.trailIndex = JoinLists(lists, Len(lists)),
                      !.values = Tuple([k \in 1..SumOfSizes(lists, Len(lists)) |-> 0]),
                      !.initialized_element =
                          Tuple([k \in 1..SumOfSizes(lists, Len(lists)) |-> TRUE]),
                      !.isCompressed = TRUE,
                      !.m_lock_broken = FALSE]
          : lists \in {GetSparsityPattern(sparsity_learner).row_lists} })

\* the elements of the matrix as exact numbers
CsrDense(mat) ==
    Tuple([i \in 1..mat.m_num_rows |->
        Tuple([j \in 1..mat.m_num_cols |-> I(CsrGetElement(mat, i - 1, j - 1))])])

\* Variant: a warning of the engine (a positive status) counts as a success
SetupReturn_warning_passes(mumps_message) == mumps_message >= 0

\* the value Setup returns
SetupReturn(mumps_message) == mumps_message = 0

\* Variant: the request for a new pattern is left standing
Setup_keeps_request(ms, m_mat, sparsity_learner, d, mumps_message) ==
    The({ The({ The({
        [solver |-> [ms EXCEPT !.m_dim = mat.m_num_rows,
                               !.m_setup_call = @ + 1,
                               !.m_engine = [matrix |-> Compress(mat),
                                             job |-> "ANALYZE_FACTORIZE",
                                             INFOG1 |-> mumps_message]],
         m_mat |-> Compress(mat),
         sparsity_learner |-> IF ms.m_force_sparsity_pattern_update
                              THEN GetSparsityPattern(learned) ELSE sparsity_learner,
         events |-> (IF ms.m_force_sparsity_pattern_update
                     THEN <<"ChSparsityPatternLearner", "ConvertToMatrixForm",
                            "LoadSparsityPattern">>
                     ELSE IF ms.m_nnz # 0 \/ ms.m_setup_call = 0 THEN <<"Reset">> ELSE <<>>)
                    \o <<"ConvertToMatrixForm", "Compress", "SetMatrix", "ANALYZE_FACTORIZE">>,
         result |-> SetupReturn(mumps_message)]
        : mat \in {ConvertToMatrixFormCsr(
                     IF ms.m_force_sparsity_pattern_update
                     THEN LoadSparsityPattern(m_mat, learned)
                     ELSE IF ms.m_nnz # 0 THEN CsrReset(m_mat, dim, dim, ms.m_nnz)
                     ELSE IF ms.m_setup_call = 0
                          THEN CsrReset(m_mat, dim, dim, (dim * dim) \div 10)
                          ELSE m_mat, d)} })
        : learned \in {ConvertToMatrixFormLearner(ChSparsityPatternLearner(dim, dim, TRUE), d)} })
        : dim \in {IF ms.m_setup_call = 0
                   THEN CountActiveVariables(d) + CountActiveConstraints(d)
                   ELSE ms.m_dim} })

\* Setup(sysd): the solver, m_mat, the learner last built, the calls made on
\* the matrix and the engine in their order, and the value returned.
\* SPM_DEF_FULLNESS is 0.1: static_cast<int>(m_dim * (m_dim * 0.1)).
Setup(ms, m_mat, sparsity_learner, d, mumps_message) ==
    The({ The({ The({
        [solver |-> [ms EXCEPT !.m_force_sparsity_pattern_update = FALSE,
                               !.m_dim = mat.m_num_rows,
                               !.m_setup_call = @ + 1,
                               !.m_engine = [matrix |-> Compress(mat),
                                             job |-> "ANALYZE_FACTORIZE",
                                             INFOG1 |-> mumps_message]],
         m_mat |-> Compress(mat),
         sparsity_learner |-> IF ms.m_force_sparsity_pattern_update
                              THEN GetSparsityPattern(learned) ELSE sparsity_learner,
         events |-> (IF ms.m_force_sparsity_pattern_update
                     THEN <<"ChSparsityPatternLearner", "ConvertToMatrixForm",
                            "LoadSparsityPattern">>
                     ELSE IF ms.m_nnz # 0 \/ ms.m_setup_call = 0 THEN <<"Reset">> ELSE <<>>)
                    \o <<"ConvertToMatrixForm", "Compress", "SetMatrix", "ANALYZE_FACTORIZE">>,
         result |-> SetupReturn(mumps_message)]
        : mat \in {ConvertToMatrixFormCsr(
                     IF ms.m_force_sparsity_pattern_update
                     THEN LoadSparsityPattern(m_mat, learned)
                     ELSE IF ms.m_nnz # 0 THEN CsrReset(m_mat, dim, dim, ms.m_nnz)
                     ELSE IF ms.m_setup_call = 0
                          THEN CsrReset(m_mat, dim, dim, (dim * dim) \div 10)
                          ELSE m_mat, d)} })
        : learned \in {ConvertToMatrixFormLearner(ChSparsityPatternLearner(dim, dim, TRUE), d)} })
        : dim \in {IF ms.m_setup_call = 0
                   THEN CountActiveVariables(d) + CountActiveConstraints(d)
                   ELSE ms.m_dim} })

\* ChSolverMumps::Solve(sysd): the solver and the vector handed to
\* FromVectorToUnknowns; choice is the outcome of the SOLVE job
MumpsSolve(ms, d, choice) ==
    The({ [solver |-> [ms EXCEPT !.m_rhs_sol = res.sol,
                                 !.m_solve_call = @ + 1,
                                 !.m_engine = [@ EXCEPT !.job = "SOLVE", !.INFOG1 = res.status]],
           unknowns |-> res.sol]
          : res \in {MumpsCall(CsrDense(ms.m_engine.matrix), ConvertToRhs(d), choice)} })


(***************************************************************************)
(* State                                                                   *)
(***************************************************************************)
VARIABLES
    ip,     \* the members of the ChInteriorPoint object
    sysd,   \* the descriptor of the current Solve call and what it received
    pc,     \* "idle": no Solve running; "loop": Solve is at the head of its loop;
            \* "crashed": the process has been stopped by a write outside a buffer
    obs,    \* observations of the caller: configured tolerances, calls made
    call,   \* a direct call of a function of the solver: arguments and result
    learner, \* the members of a ChSparsityPatternLearner object
    csr,     \* the members of a ChCSR3Matrix object
    mumps    \* the members of a ChSolverMumps object but m_mat, which is csr

vars == <<ip, sysd, pc, obs, call, learner, csr, mumps>>

\* the matrix objects, which the interior-point solver does not touch
matrices == <<learner, csr, mumps>>

(***************************************************************************)
(* Bounds of the model                                                     *)
(***************************************************************************)
MaxIterations == 3

MaxSolverCalls == 1

Problems ==
    { Problem(<< <<I(2)>> >>, <<>>, <<I(4)>>, <<>>),
      Problem(<< <<I(1)>> >>, << <<I(1)>> >>, <<I(2)>>, <<I(-1)>>),
      Problem(<< <<I(1)>> >>, << <<I(1)>>, <<I(-1)>> >>, <<I(2)>>, <<I(-1), I(-1)>>) }

UserTolerances == { [rp |-> Dec(1, -3), rd |-> Dec(1, -3), mu |-> Dec(1, -3)] }

KKTMethods == {"STANDARD", "AUGMENTED"}

(***************************************************************************)
(* Construction.  EQUAL_STEP_LENGTH, ADAPTIVE_ETA and ONLY_PREDICT are     *)
(* members set by the constructor and SKIP_CONTACTS_UV is a macro; they    *)
(* are the configuration of the solver and every value is modelled.        *)
(***************************************************************************)
\* the engine before its first call: the calls and failures of the current
\* Solve, the last status, the matrix and right-hand side last given to it
NoEngineCall == [calls |-> 0, status |-> 0, failures |-> 0, mat |-> <<>>, rhs_in |-> <<>>]

Construct(equal, adaptive, predict, skip) ==
    [m |-> 0, n |-> 0, solver_call |-> 0, iteration_count |-> 0,
     iteration_count_max |-> 50,
     EQUAL_STEP_LENGTH |-> equal, ADAPTIVE_ETA |-> adaptive, ONLY_PREDICT |-> predict,
     SKIP_CONTACTS_UV |-> skip,
     warm_start |-> TRUE, warm_start_broken |-> FALSE,
     IPtolerances |-> [rp_nnorm |-> Dec(1, -12), rd_nnorm |-> Dec(1, -12)],
     mu_tolerance |-> Dec(1, -12),
     KKT_solve_method |-> "AUGMENTED",
     mu |-> Zero,
     x |-> <<>>, y |-> <<>>, lam |-> <<>>, Dx |-> <<>>, Dy |-> <<>>, Dlam |-> <<>>,
     b |-> <<>>, c |-> <<>>, rp |-> <<>>, rd |-> <<>>, rpd |-> <<>>,
     vectn |-> <<>>, vectm |-> <<>>, rhs_sol |-> <<>>, sol_chrono |-> <<>>,
     BigMat |-> <<>>, SmallMat |-> <<>>,
     mumps_engine |-> NoEngineCall]

NoObservation ==
    [tolerances |-> [rp |-> Dec(1, -12), rd |-> Dec(1, -12), mu |-> Dec(1, -12)],
     iterate |-> 0, starting_point |-> 0, returned |-> <<>>]

NoCall == [op |-> "none"]

NoDescriptor == [prob |-> Problem(<<>>, <<>>, <<>>, <<>>), unknowns |-> <<>>, from_vector |-> 0]

Init ==
    /\ learner = NoLearner
    /\ csr = NoCsr
    /\ mumps = ChSolverMumps
    /\ \E equal \in BOOLEAN, adaptive \in BOOLEAN, predict \in BOOLEAN, skip \in BOOLEAN :
           ip = Construct(equal, adaptive, predict, skip)
    /\ sysd = NoDescriptor
    /\ pc = "idle"
    /\ obs = NoObservation
    /\ call = NoCall

(***************************************************************************)
(* Public interface                                                        *)
(***************************************************************************)
CallSetTolerances ==
    /\ UNCHANGED matrices
    /\ pc = "idle"
    /\ \E t \in UserTolerances :
          /\ ip' = SetTolerances(ip, t.rp, t.rd, t.mu)
          /\ obs' = [obs EXCEPT !.tolerances = t]
    /\ UNCHANGED <<sysd, pc, call>>

CallSetMaxIterations ==
    /\ UNCHANGED matrices
    /\ pc = "idle"
    /\ \E max_iter \in 0..MaxIterations : ip' = [ip EXCEPT !.iteration_count_max = max_iter]
    /\ UNCHANGED <<sysd, pc, obs, call>>

CallSetKKTSolutionMethod ==
    /\ UNCHANGED matrices
    /\ pc = "idle"
    /\ \E method \in KKTMethods : ip' = [ip EXCEPT !.KKT_solve_method = method]
    /\ UNCHANGED <<sysd, pc, obs, call>>

\* a state of the solver that holds an unknown value is unknown as a whole
Unknown(s0) ==
    \E s \in {s0} :
       \/ s.mu = Top
       \/ \E v \in {s.x, s.y, s.lam, s.Dx, s.Dy, s.Dlam, s.rp, s.rd, s.rpd,
                    s.vectn, s.vectm, s.rhs_sol} : VHasTop(v)
       \/ \E i \in 1..Len(s.BigMat) : VHasTop(s.BigMat[i])

Blur(s0) ==
    The({ IF ~Unknown(s) THEN s
          ELSE [s EXCEPT !.mu = Top,
                   !.x = FillElem(Len(@), Top), !.y = FillElem(Len(@), Top),
                   !.lam = FillElem(Len(@), Top), !.Dx = FillElem(Len(@), Top),
                   !.Dy = FillElem(Len(@), Top), !.Dlam = FillElem(Len(@), Top),
                   !.rp = FillElem(Len(@), Top), !.rd = FillElem(Len(@), Top),
                   !.rpd = FillElem(Len(@), Top), !.vectn = FillElem(Len(@), Top),
                   !.vectm = FillElem(Len(@), Top), !.rhs_sol = FillElem(Len(@), Top),
                   !.BigMat = Tuple([i \in 1..Len(@) |-> FillElem(Len(@), Top)]),
                   !.mumps_engine = [@ EXCEPT
                       !.mat = Tuple([i \in 1..Len(@) |-> FillElem(Len(@), Top)]),
                       !.rhs_in = FillElem(Len(@), Top)]]
          : s \in {s0} })

\* the exit test cannot be decided: a quantity it compares is unknown
ExitUnknown(s0) ==
    \E s \in {s0} :
       \/ Unknown(s)
       \/ MatrDot(s.y, s.lam) = Top
       \/ NnormUnknown(s.rp, s.m, DecToRat(s.IPtolerances.rp_nnorm))
       \/ NnormUnknown(s.rd, s.n, DecToRat(s.IPtolerances.rd_nnorm))

\* Variant: the counter of the loop starts at 0
LoopStart_at_zero(s) == [s EXCEPT !.iteration_count = 0]

\* the initialisation of the loop of Solve
LoopStart(s) == [s EXCEPT !.iteration_count = 1]

\* the tolerances Solve sets before its loop
SolveTolerances == [rp |-> Dec(1, -7), rd |-> Dec(1, -8), mu |-> Dec(1, -8)]

\* the m == 0 branch of initialize writes the first n elements of rhs_sol,
\* which reset_dimensions has not sized in the NORMAL method: a write
\* outside the buffer, which either stops the process or is lost
WritesOutsideRhs(s, d) ==
    /\ CountActiveConstraints(d) = 0
    /\ s.KKT_solve_method = "NORMAL"
    /\ Len(s.rhs_sol) < CountActiveVariables(d)

\* Solve, from its entry to the head of the loop (or to its return if m = 0),
\* on a solver that has been given fewer than calls_max systems
SolveEntry(calls_max) ==
    /\ UNCHANGED matrices
    /\ pc = "idle"
    /\ ip.solver_call < calls_max
    /\ ip.iteration_count_max <= MaxIterations
    /\ UNCHANGED call
    /\ \E d \in Problems, choice \in EngineChoice :
          \E write \in (IF WritesOutsideRhs(ip, d) THEN {"stops", "lost"} ELSE {"inside"}) :
             IF write = "stops"
             THEN /\ pc' = "crashed"
                  /\ UNCHANGED <<ip, sysd, obs>>
             ELSE
          \E s1 \in {Blur(initialize(
                         [ip EXCEPT !.solver_call = @ + 1,
                                    !.mumps_engine = [@ EXCEPT !.calls = 0, !.failures = 0]],
                         d, choice))} :
             IF s1.m = 0
             THEN /\ ip' = s1
                  /\ sysd' = [prob |-> d, unknowns |-> s1.rhs_sol, from_vector |-> 1]
                  /\ pc' = "idle"
                  /\ obs' = [obs EXCEPT !.iterate = 0, !.starting_point = 0,
                                         !.returned = Zero]
             ELSE /\ ip' = LoopStart(SetTolerances(s1, SolveTolerances.rp, SolveTolerances.rd,
                                                 SolveTolerances.mu))
                  /\ sysd' = [prob |-> d, unknowns |-> <<>>, from_vector |-> 0]
                  /\ pc' = "loop"
                  /\ obs' = [obs EXCEPT !.iterate = 0, !.starting_point = 1,
                                         !.returned = <<>>]

\* a Solve within the bound on the number of calls
SolveBegin ==
    /\ ip.solver_call < MaxSolverCalls
    /\ SolveEntry(MaxSolverCalls)

\* what check_exit_conditions() can return: either value when a quantity it
\* compares is unknown
ExitOutcomes(s) ==
    IF ExitUnknown(s) THEN BOOLEAN ELSE {check_exit_conditions(s)}

\* Variant: the loop without the cap on the iteration count
LoopContinues_no_cap(s, exit) == ~exit

\* the condition of the loop of Solve, exit being what the exit test returns
LoopContinues(s, exit) ==
    s.iteration_count < s.iteration_count_max /\ ~exit

\* one pass of the loop of Solve: iterate(), update_history(), iteration_count++
SolveIterate ==
    /\ UNCHANGED matrices
    /\ pc = "loop"
    /\ \E exit \in ExitOutcomes(ip) : LoopContinues(ip, exit)
    /\ \E choice_pred \in EngineChoice, choice_corr \in EngineChoice,
          pick \in (IF ip.ADAPTIVE_ETA THEN ExpPick ELSE {"lower"}) :
          ip' = Blur([iterate(ip, choice_pred, choice_corr, pick)
                         EXCEPT !.iteration_count = @ + 1])
    /\ obs' = [obs EXCEPT !.iterate = @ + 1]
    /\ UNCHANGED <<sysd, pc, call>>

\* the end of Solve: generate_solution(), FromVectorToUnknowns(sol_chrono), return
SolveFinish ==
    /\ UNCHANGED matrices
    /\ pc = "loop"
    /\ \E exit \in ExitOutcomes(ip) : ~LoopContinues(ip, exit)
    /\ \E s \in {generate_solution(ip)} :
          /\ ip' = s
          /\ sysd' = [sysd EXCEPT !.unknowns = s.sol_chrono, !.from_vector = @ + 1]
    /\ pc' = "idle"
    /\ obs' = [obs EXCEPT !.returned = Zero]
    /\ UNCHANGED call

Next ==
    \/ CallSetTolerances
    \/ CallSetMaxIterations
    \/ CallSetKKTSolutionMethod
    \/ SolveBegin
    \/ SolveIterate
    \/ SolveFinish

Spec == Init /\ [][Next]_vars

\* Solve runs to its end once started: its loop is sequential code.  The
\* solver is the one the build gives (SKIP_CONTACTS_UV as the macro defines
\* it, ADAPTIVE_ETA as the constructor sets it), for both values of
\* EQUAL_STEP_LENGTH and ONLY_PREDICT.
InitBuilt == Init /\ ip.ADAPTIVE_ETA /\ ip.SKIP_CONTACTS_UV

FairSpec == InitBuilt /\ [][Next]_vars /\ WF_vars(SolveIterate) /\ WF_vars(SolveFinish)

(***************************************************************************)
(* Two Solve calls on the solver as the constructor builds it              *)
(* (EQUAL_STEP_LENGTH(false), ADAPTIVE_ETA(true), ONLY_PREDICT(false),     *)
(* warm_start(true), KKT_solve_method(AUGMENTED)), the layout being        *)
(* selected with SetKKTSolutionMethod before or between them.              *)
(***************************************************************************)
InitWarm ==
    /\ Init
    /\ ~ip.EQUAL_STEP_LENGTH /\ ip.ADAPTIVE_ETA /\ ~ip.ONLY_PREDICT /\ ip.SKIP_CONTACTS_UV

\* a Solve on a solver that has already solved MaxSolverCalls systems
SolveAgain ==
    /\ ip.solver_call >= MaxSolverCalls
    /\ SolveEntry(2 * MaxSolverCalls)

NextWarm ==
    \/ CallSetMaxIterations
    \/ CallSetKKTSolutionMethod
    \/ SolveBegin
    \/ SolveIterate
    \/ SolveFinish
    \/ SolveAgain

SpecWarm == InitWarm /\ [][NextWarm]_vars

(***************************************************************************)
(* The solver as the constructor builds it, with any of the three methods  *)
(* of enum KKT_SOLUTION_METHOD selected                                    *)
(***************************************************************************)
AllKKTMethods == {"STANDARD", "AUGMENTED", "NORMAL"}

CallSetAnyKKTSolutionMethod ==
    /\ UNCHANGED matrices
    /\ pc = "idle"
    /\ \E method \in AllKKTMethods : ip' = [ip EXCEPT !.KKT_solve_method = method]
    /\ UNCHANGED <<sysd, pc, obs, call>>

NextNormal ==
    \/ CallSetMaxIterations
    \/ CallSetAnyKKTSolutionMethod
    \/ SolveBegin
    \/ SolveIterate
    \/ SolveFinish

SpecNormal == InitWarm /\ [][NextNormal]_vars

(***************************************************************************)
(* The loop of Solve near convergence.  An iterate close to the solution   *)
(* is reached after more iterations than bounded rationals can follow, so  *)
(* this specification starts Solve at the head of its loop: the iterate    *)
(* (x, y, lam) is drawn from points around the solution of the problem,    *)
(* y > 0 and lam > 0, the residuals are those fullupdate_residual computes *)
(* for it, the tolerances are those Solve has set, and the iteration       *)
(* counter is at or below the cap.                                         *)
(***************************************************************************)
\* minimise x^2/2 + 2x subject to -1 <= x <= 1: x = -1, y = (0, 2), lam = (1, 0)
LoopProblemBox == Problem(<< <<I(1)>> >>, << <<I(1)>>, <<I(-1)>> >>, <<I(2)>>, <<I(-1), I(-1)>>)

\* minimise |x|^2/2 + x1 subject to x1 >= 0: x = (0, 0), y = 0, lam = 1
LoopProblemPlane ==
    Problem(<< <<I(1), I(0)>>, <<I(0), I(1)>> >>, << <<I(1), I(0)>> >>,
            <<I(1), I(0)>>, <<I(0)>>)

LoopIterates ==
    { [prob |-> LoopProblemBox, x |-> <<I(-1)>>, y |-> <<y1, I(2)>>, lam |-> <<I(1), R(1, 1000000000)>>] :
         y1 \in {R(1, 1000000000), R(1, 100000000), R(1, 10000000)} }
    \cup
    { [prob |-> LoopProblemPlane, x |-> <<R(1, 100000000), x2>>, y |-> <<R(1, 1000000000)>>,
       lam |-> <<I(1)>>] :
         x2 \in {Zero, R(15, 1000000000), R(1, 1000000)} }

LoopState(equal, adaptive, predict, skip, method, it, count) ==
    The({ [SetTolerances(s2, SolveTolerances.rp, SolveTolerances.rd, SolveTolerances.mu)
              EXCEPT !.iteration_count = count,
                     !.mumps_engine = [@ EXCEPT !.calls = 2 * count - 1]]
          : s2 \in {fullupdate_residual(
                       [initialize([Construct(equal, adaptive, predict, skip)
                                       EXCEPT !.KKT_solve_method = method, !.solver_call = 1,
                                              !.iteration_count_max = MaxIterations],
                                   it.prob, "solved")
                           EXCEPT !.x = it.x, !.y = it.y, !.lam = it.lam])} })

InitLoop ==
    /\ learner = NoLearner
    /\ csr = NoCsr
    /\ mumps = ChSolverMumps
    /\ \E equal \in BOOLEAN, adaptive \in BOOLEAN, predict \in BOOLEAN, skip \in BOOLEAN,
          method \in KKTMethods, it \in LoopIterates, count \in 2..MaxIterations :
          /\ ip = LoopState(equal, adaptive, predict, skip, method, it, count)
          /\ sysd = [prob |-> it.prob, unknowns |-> <<>>, from_vector |-> 0]
          /\ obs = [NoObservation EXCEPT !.iterate = count - 1, !.starting_point = 1]
    /\ pc = "loop"
    /\ call = NoCall

NextLoop == SolveIterate \/ SolveFinish

SpecLoop == InitLoop /\ [][NextLoop]_vars

(***************************************************************************)
(* find_Newton_step_length called on its own                               *)
(***************************************************************************)
MaxStepRows == 2

StepValues == {R(1, 2), I(1), I(2)}

StepDirections == {I(-2), I(-1), R(-1, 2), I(0), I(1)}

StepEtas == {R(1, 2), EtaFixed, I(1)}

RECURSIVE Vectors(_, _)
Vectors(values, rows) ==
    IF rows = 0 THEN {<<>>}
    ELSE {Append(u, v) : u \in Vectors(values, rows - 1), v \in values}

InitStep ==
    /\ learner = NoLearner
    /\ csr = NoCsr
    /\ mumps = ChSolverMumps
    /\ ip = Construct(FALSE, TRUE, FALSE, TRUE)
    /\ sysd = NoDescriptor
    /\ pc = "idle"
    /\ obs = NoObservation
    /\ \E rows \in 1..MaxStepRows :
          \E vect \in Vectors(StepValues, rows), Dvect \in Vectors(StepDirections, rows),
             eta \in StepEtas :
             call = [op |-> "find_Newton_step_length", vect |-> vect, Dvect |-> Dvect,
                     eta |-> eta, returned |-> FALSE, result |-> Zero]

CallFindNewtonStepLength ==
    /\ UNCHANGED matrices
    /\ call.op = "find_Newton_step_length"
    /\ ~call.returned
    /\ call' = [call EXCEPT !.returned = TRUE,
                            !.result = find_Newton_step_length(call.vect, call.Dvect, call.eta)]
    /\ UNCHANGED <<ip, sysd, pc, obs>>

NextStep == CallFindNewtonStepLength

SpecStep == InitStep /\ [][NextStep]_vars

\* the same calls on vectors that may hold zeros
InitStepNonNegative ==
    /\ learner = NoLearner
    /\ csr = NoCsr
    /\ mumps = ChSolverMumps
    /\ ip = Construct(FALSE, TRUE, FALSE, TRUE)
    /\ sysd = NoDescriptor
    /\ pc = "idle"
    /\ obs = NoObservation
    /\ \E rows \in 1..MaxStepRows :
          \E vect \in Vectors(StepValues \cup {Zero}, rows),
             Dvect \in Vectors(StepDirections, rows), eta \in StepEtas :
             call = [op |-> "find_Newton_step_length", vect |-> vect, Dvect |-> Dvect,
                     eta |-> eta, returned |-> FALSE, result |-> Zero]

SpecStepNonNegative == InitStepNonNegative /\ [][NextStep]_vars

(***************************************************************************)
(* KKTsolve called on its own, as Solve calls it: at the head of the loop  *)
(* (after the starting point, or after one more iteration), first as the   *)
(* predictor solve and again as the corrector solve, with any sigma        *)
(***************************************************************************)
MaxKKTCalls == 2

KKTSigmas == {Zero, R(1, 8), One}

KKTHeadIterations == {0, 1}

\* the solver at the head of the loop of Solve on system d, after k iterations
RECURSIVE SolveHead(_, _, _)
SolveHead(method, d, k) ==
    IF k = 0
    THEN LoopStart(SetTolerances(initialize([Construct(FALSE, TRUE, FALSE, TRUE)
                                       EXCEPT !.KKT_solve_method = method, !.solver_call = 1,
                                              !.iteration_count_max = MaxIterations],
                                   d, "solved"),
                        SolveTolerances.rp, SolveTolerances.rd, SolveTolerances.mu))
    ELSE [iterate(SolveHead(method, d, k - 1), "solved", "solved", "lower")
             EXCEPT !.iteration_count = @ + 1]

InitKKT ==
    /\ learner = NoLearner
    /\ csr = NoCsr
    /\ mumps = ChSolverMumps
    /\ \E method \in KKTMethods, d \in {p \in Problems : CountActiveConstraints(p) > 0},
          k \in KKTHeadIterations :
          /\ ip = SolveHead(method, d, k)
          /\ ~Unknown(ip)
          /\ sysd = [prob |-> d, unknowns |-> <<>>, from_vector |-> 0]
          /\ obs = [NoObservation EXCEPT !.iterate = k, !.starting_point = 1,
                                         !.returned = <<>>]
    /\ pc = "loop"
    /\ call = [op |-> "KKTsolve", count |-> 0, sigma |-> Zero]

CallKKTsolve ==
    /\ UNCHANGED matrices
    /\ call.op = "KKTsolve"
    /\ call.count < MaxKKTCalls
    /\ \E sigma \in KKTSigmas, choice \in EngineChoice :
          /\ ip' = Blur(KKTsolve(ip, sigma, choice))
          /\ call' = [call EXCEPT !.count = @ + 1, !.sigma = sigma]
    /\ UNCHANGED <<sysd, pc, obs>>

NextKKT == CallKKTsolve

SpecKKT == InitKKT /\ [][NextKKT]_vars

(***************************************************************************)
(* A ChSparsityPatternLearner used on its own: constructed with a shape    *)
(* and an orientation, then any sequence of SetElement at positions of the *)
(* matrix, GetSparsityPattern, GetNNZ and Reset.  obs holds what the       *)
(* caller has inserted since the construction or the last Reset.           *)
(***************************************************************************)
MaxInsertions == 3

LearnerShapes == {<<1, 2>>, <<2, 1>>, <<2, 2>>}

InitLearner ==
    /\ ip = Construct(FALSE, TRUE, FALSE, TRUE)
    /\ sysd = NoDescriptor
    /\ pc = "idle"
    /\ obs = [inserted |-> {}, insertions |-> 0, pattern_current |-> FALSE]
    /\ call = [op |-> "ChSparsityPatternLearner"]
    /\ csr = NoCsr
    /\ mumps = ChSolverMumps
    /\ \E shape \in LearnerShapes, row_major_format_in \in BOOLEAN :
          learner = ChSparsityPatternLearner(shape[1], shape[2], row_major_format_in)

\* SetElement(insrow, inscol, insval): a write to row_lists[insrow] outside the
\* vector is undefined: the process stops, or the write lands elsewhere
CallLearnerSetElement ==
    /\ UNCHANGED <<csr, mumps>>
    /\ pc = "idle"
    /\ obs.insertions < MaxInsertions
    /\ \E insrow \in 0..(learner.m_num_rows - 1), inscol \in 0..(learner.m_num_cols - 1) :
          /\ call' = [op |-> "SetElement", insrow |-> insrow, inscol |-> inscol]
          /\ obs' = [obs EXCEPT !.inserted = @ \cup {<<insrow, inscol>>},
                                !.insertions = @ + 1, !.pattern_current = FALSE]
          /\ \E write \in (IF InsideRowLists(learner, insrow) THEN {"inside"}
                            ELSE {"stops", "lost"}) :
                CASE write = "inside" -> /\ learner' = LearnerSetElement(learner, insrow, inscol)
                                         /\ pc' = pc
                  [] write = "stops" -> /\ pc' = "crashed"
                                        /\ learner' = learner
                  [] write = "lost" -> /\ pc' = pc
                                       /\ learner' = learner
    /\ UNCHANGED <<ip, sysd>>

CallGetSparsityPattern ==
    /\ UNCHANGED <<csr, mumps>>
    /\ pc = "idle"
    /\ learner' = GetSparsityPattern(learner)
    /\ call' = [op |-> "GetSparsityPattern", result |-> learner'.row_lists]
    /\ obs' = [obs EXCEPT !.pattern_current = TRUE]
    /\ UNCHANGED <<ip, sysd, pc>>

CallGetNNZ ==
    /\ UNCHANGED <<csr, mumps>>
    /\ pc = "idle"
    /\ learner' = GetNNZ(learner)
    /\ call' = [op |-> "GetNNZ", result |-> learner'.m_nnz]
    /\ UNCHANGED <<ip, sysd, pc, obs>>

CallLearnerReset ==
    /\ UNCHANGED <<csr, mumps>>
    /\ pc = "idle"
    /\ \E shape \in LearnerShapes :
          /\ learner' = LearnerReset(learner, shape[1], shape[2])
          /\ call' = [op |-> "Reset", row |-> shape[1], col |-> shape[2]]
    /\ obs' = [obs EXCEPT !.inserted = {}, !.pattern_current = FALSE]
    /\ UNCHANGED <<ip, sysd, pc>>

NextLearner ==
    \/ CallLearnerSetElement
    \/ CallGetSparsityPattern
    \/ CallGetNNZ
    \/ CallLearnerReset

SpecLearner == InitLearner /\ [][NextLearner]_vars

(***************************************************************************)
(* A ChCSR3Matrix used on its own: constructed with a shape, an            *)
(* orientation and a number of slots, then any sequence of SetElement at   *)
(* positions of the matrix, Compress, Reset, SetSparsityPatternLock and    *)
(* GetNNZ.                                                                 *)
(***************************************************************************)
MaxCapacity == 4

MaxCsrValue == 2

CsrShapes == {<<1, 2>>, <<2, 2>>}

CsrHints == {1, 2, 3}

CsrValues == {1, 2}

\* the growth of the arrays at a reallocation is left open: both a growth by
\* one slot and a growth by one slot for every window are taken
StorageAugmentations(mat) == {1, LeadDim(mat)}

InitCsr ==
    /\ ip = Construct(FALSE, TRUE, FALSE, TRUE)
    /\ sysd = NoDescriptor
    /\ pc = "idle"
    /\ obs = NoObservation
    /\ learner = NoLearner
    /\ call = [op |-> "ChCSR3Matrix"]
    /\ mumps = ChSolverMumps
    /\ \E shape \in CsrShapes, row_major_format_on \in BOOLEAN, nonzeros \in CsrHints :
          csr = ChCSR3Matrix(shape[1], shape[2], row_major_format_on, nonzeros)

CallCsrSetElement ==
    /\ \E row_sel \in 0..(csr.m_num_rows - 1), col_sel \in 0..(csr.m_num_cols - 1),
          insval \in CsrValues, overwrite \in BOOLEAN,
          storage_augm \in StorageAugmentations(csr) :
          /\ csr' = CsrSetElement(csr, row_sel, col_sel, insval, overwrite, storage_augm)
          /\ Len(csr'.trailIndex) <= MaxCapacity
          /\ CsrGetElement(csr', row_sel, col_sel) <= MaxCsrValue
          /\ call' = [op |-> "SetElement", row_sel |-> row_sel, col_sel |-> col_sel,
                      insval |-> insval, overwrite |-> overwrite]
    /\ UNCHANGED <<ip, sysd, pc, obs, learner, mumps>>

CallCompress ==
    /\ csr' = Compress(csr)
    /\ call' = [op |-> "Compress", result |-> csr.isCompressed]
    /\ UNCHANGED <<ip, sysd, pc, obs, learner, mumps>>

CallCsrReset ==
    /\ \E shape \in CsrShapes, nonzeros_hint \in CsrHints :
          /\ csr' = CsrReset(csr, shape[1], shape[2], nonzeros_hint)
          /\ call' = [op |-> "Reset", nrows |-> shape[1], ncols |-> shape[2],
                      nonzeros_hint |-> nonzeros_hint]
    /\ UNCHANGED <<ip, sysd, pc, obs, learner, mumps>>

CallSetSparsityPatternLock ==
    /\ \E val \in BOOLEAN :
          /\ csr' = SetSparsityPatternLock(csr, val)
          /\ call' = [op |-> "SetSparsityPatternLock", val |-> val]
    /\ UNCHANGED <<ip, sysd, pc, obs, learner, mumps>>

CallCsrGetNNZ ==
    /\ call' = [op |-> "GetNNZ", result |-> CsrGetNNZ(csr)]
    /\ UNCHANGED <<ip, sysd, pc, obs, learner, csr, mumps>>

NextCsr ==
    \/ CallCsrSetElement
    \/ CallCompress
    \/ CallCsrReset
    \/ CallSetSparsityPatternLock
    \/ CallCsrGetNNZ

SpecCsr == InitCsr /\ [][NextCsr]_vars

(***************************************************************************)
(* initialize called on its own, as every Solve calls it first, on         *)
(* descriptors whose numbers of variables and of constraints both vary,    *)
(* the layout being selected before or between the calls.                  *)
(***************************************************************************)
MaxInitializeCalls == 3

DimProblems ==
    Problems \cup
    { Problem(<< <<I(2), Zero>>, <<Zero, I(1)>> >>, <<>>, <<I(4), I(1)>>, <<>>),
      Problem(<< <<I(1), Zero>>, <<Zero, I(1)>> >>, << <<I(1), I(1)>> >>,
              <<I(2), I(-1)>>, <<I(-1)>>) }

CallInitialize ==
    /\ UNCHANGED matrices
    /\ pc = "idle"
    /\ ip.solver_call < MaxInitializeCalls
    /\ \E d \in DimProblems, choice \in EngineChoice :
          /\ ip' = Blur(initialize(
                        [ip EXCEPT !.solver_call = @ + 1,
                                   !.mumps_engine = [@ EXCEPT !.calls = 0, !.failures = 0]],
                        d, choice))
          /\ sysd' = [prob |-> d, unknowns |-> <<>>, from_vector |-> 0]
    /\ call' = [op |-> "initialize", n_old |-> ip.n, m_old |-> ip.m]
    /\ UNCHANGED <<pc, obs>>

NextDims == CallSetKKTSolutionMethod \/ CallInitialize

SpecDims == InitWarm /\ [][NextDims]_vars

(***************************************************************************)
(* make_positive_definite on BigMat as a ChCSR3Matrix: a row-major matrix  *)
(* of the dimension of the layout, holding any elements, compressed or     *)
(* not.                                                                    *)
(***************************************************************************)
PDLayouts ==
    { [n |-> 1, m |-> 1, method |-> "AUGMENTED"],
      [n |-> 1, m |-> 1, method |-> "STANDARD"] }

InitPD ==
    /\ sysd = NoDescriptor
    /\ pc = "idle"
    /\ obs = NoObservation
    /\ learner = NoLearner
    /\ call = [op |-> "ChCSR3Matrix"]
    /\ mumps = ChSolverMumps
    /\ \E layout \in PDLayouts, nonzeros \in CsrHints :
          /\ ip = [Construct(FALSE, TRUE, FALSE, TRUE)
                      EXCEPT !.n = layout.n, !.m = layout.m,
                             !.KKT_solve_method = layout.method]
          /\ csr = ChCSR3Matrix(KKTdim(layout.method, layout.n, layout.m),
                                KKTdim(layout.method, layout.n, layout.m), TRUE, nonzeros)

\* an element of the assembled system is written into BigMat
CallBigMatSetElement ==
    /\ \E row_sel \in 0..(csr.m_num_rows - 1), col_sel \in 0..(csr.m_num_cols - 1),
          storage_augm \in StorageAugmentations(csr) :
          /\ csr' = CsrSetElement(csr, row_sel, col_sel, 1, TRUE, storage_augm)
          /\ Len(csr'.trailIndex) <= MaxCapacity
          /\ call' = [op |-> "SetElement", row_sel |-> row_sel, col_sel |-> col_sel,
                      insval |-> 1, overwrite |-> TRUE]
    /\ UNCHANGED <<ip, sysd, pc, obs, learner, mumps>>

CallMakePositiveDefinite ==
    /\ csr' = make_positive_definite_arrays(csr, ip.n, ip.m, ip.KKT_solve_method)
    /\ call' = [op |-> "make_positive_definite"]
    /\ UNCHANGED <<ip, sysd, pc, obs, learner, mumps>>

NextPD == CallBigMatSetElement \/ CallCompress \/ CallMakePositiveDefinite

SpecPD == InitPD /\ [][NextPD]_vars

(***************************************************************************)
(* ChSolverMumps called by a time stepper: Setup and Solve on descriptors  *)
(* of two sizes and patterns, the pattern lock and the request for a new   *)
(* pattern being set between the calls.  csr is m_mat; learner is the      *)
(* learner last built by Setup.                                            *)
(***************************************************************************)
MaxMumpsCalls == 3

MumpsProblems ==
    { Problem(<< <<I(2)>> >>, << <<I(1)>> >>, <<I(-1)>>, <<I(-1)>>),
      Problem(<< <<I(1)>> >>, << <<Zero>> >>, <<I(-2)>>, <<Zero>>),
      Problem(<< <<I(1), Zero>>, <<Zero, I(2)>> >>, << <<I(1), I(1)>> >>,
              <<I(-1), Zero>>, <<I(-1)>>) }

\* INFOG(1) after a job: 0, an error (negative) or a warning (positive)
MumpsMessages == {0, -10, 1}

InitMumps ==
    /\ ip = Construct(FALSE, TRUE, FALSE, TRUE)
    /\ sysd = NoDescriptor
    /\ pc = "idle"
    /\ obs = NoObservation
    /\ learner = NoLearner
    /\ call = [op |-> "ChSolverMumps"]
    /\ csr = NoCsr
    /\ mumps = ChSolverMumps

CallForceSparsityPatternUpdate ==
    /\ \E val \in BOOLEAN :
          /\ mumps' = ForceSparsityPatternUpdate(mumps, val)
          /\ call' = [op |-> "ForceSparsityPatternUpdate", val |-> val]
    /\ UNCHANGED <<ip, sysd, pc, obs, learner, csr>>

CallMumpsSetSparsityPatternLock ==
    /\ \E val \in BOOLEAN :
          /\ mumps' = [mumps EXCEPT !.m_lock = val]
          /\ csr' = SetSparsityPatternLock(csr, val)
          /\ call' = [op |-> "SetSparsityPatternLock", val |-> val]
    /\ UNCHANGED <<ip, sysd, pc, obs, learner>>

CallSetup ==
    /\ mumps.m_setup_call + mumps.m_solve_call < MaxMumpsCalls
    /\ \E d \in MumpsProblems, mumps_message \in MumpsMessages :
          \E done \in {Setup(mumps, csr, learner, d, mumps_message)} :
             /\ mumps' = done.solver
             /\ csr' = done.m_mat
             /\ learner' = done.sparsity_learner
             /\ sysd' = [sysd EXCEPT !.prob = d]
             /\ call' = [op |-> "Setup", mumps_message |-> mumps_message,
                         events |-> done.events, result |-> done.result]
    /\ UNCHANGED <<ip, pc, obs>>

\* Solve follows a Setup on the same descriptor; the SOLVE job fails when the
\* factorization has
CallMumpsSolve ==
    /\ mumps.m_setup_call + mumps.m_solve_call < MaxMumpsCalls
    /\ mumps.m_setup_call > 0
    /\ \E choice \in EngineChoice :
          /\ mumps.m_engine.job = "ANALYZE_FACTORIZE" /\ mumps.m_engine.INFOG1 < 0
                => choice = "failed"
          /\ \E done \in {MumpsSolve(mumps, sysd.prob, choice)} :
                /\ mumps' = done.solver
                /\ sysd' = [sysd EXCEPT !.unknowns = done.unknowns, !.from_vector = @ + 1]
                /\ call' = [op |-> "Solve", choice |-> choice, result |-> Zero]
    /\ UNCHANGED <<ip, pc, obs, learner, csr>>

NextMumps ==
    \/ CallForceSparsityPatternUpdate
    \/ CallMumpsSetSparsityPatternLock
    \/ CallSetup
    \/ CallMumpsSolve

SpecMumps == InitMumps /\ [][NextMumps]_vars

(***************************************************************************)
(* Properties.  The reference quantities below are computed from the       *)
(* problem the descriptor holds (G = M, A = Cq, c = -f, b = -bi), not from *)
(* the members of the solver.                                              *)
(***************************************************************************)
MatVec(M0, v0) ==
    The({ Tuple([i \in 1..Len(M) |-> MatrDot(M[i], v)]) : M \in {M0}, v \in {v0} })

\* the transpose of M (with cols columns) times v
TransVec(M0, v0, cols) ==
    The({ Tuple([j \in 1..cols |->
              SumTo(Tuple([i \in 1..Len(M) |-> RMul(M[i][j], v[i])]), Len(M))])
          : M \in {M0}, v \in {v0} })

DefC(d) == MatrScale(d.f, I(-1))

DefB(d) == MatrScale(d.bi, I(-1))

\* A x - y - b
DefRp(d, x, y) == VSub(VSub(MatVec(d.Cq, x), y), DefB(d))

\* G x - A' lam + c
DefRd(d, x, lam) == VAdd(VSub(MatVec(d.M, x), TransVec(d.Cq, lam, d.nv)), DefC(d))

\* y' lam / m
DefMu(y, lam) == RDiv(MatrDot(y, lam), I(Len(y)))

\* (|v| / tol)^2
SqNormOver(v, tol) == The({ MatrDot(sc, sc) : sc \in {Scaled(v, 1, tol)} })

\* a < b, a <= b, or a could not be computed
Below(a, b) == a = Top \/ RLt(a, b)

AtMost(a, b) == a = Top \/ RLe(a, b)

AllPositive(v) == \A i \in 1..Len(v) : RLt(Zero, v[i])

\* Solve is at the head of its loop, below the cap, and the exit test is decided
AtDecidedTest ==
    pc = "loop" /\ ~ExitUnknown(ip) /\ ip.iteration_count < ip.iteration_count_max

\* the exit test as stated: mu = y'lam / m, |rp| / m and |rd| / n under
\* their tolerances
StatedExitTest(s) ==
    /\ RLt(DefMu(s.y, s.lam), DecToRat(s.mu_tolerance))
    /\ NnormBelow(s.rp, s.m, DecToRat(s.IPtolerances.rp_nnorm))
    /\ NnormBelow(s.rd, s.n, DecToRat(s.IPtolerances.rd_nnorm))

\* C1: below the cap, the loop of Solve stops if and only if
\* mu = y'lam / m < muTol, |rp| / m < rpTol and |rd| / n < rdTol.
C1_StopsIffStatedTest ==
    [][AtDecidedTest => ((pc' = "idle") <=> StatedExitTest(ip))]_vars

\* C2: a Solve with m > 0 calls iterate() at most iterMax times, then ends:
\* the solution has been emitted through FromVectorToUnknowns, once.
C2_SolveTerminates ==
    /\ [](pc = "loop" => obs.iterate <= ip.iteration_count_max)
    /\ (pc = "loop") ~> (pc = "idle" /\ sysd.from_vector = 1
                                       /\ sysd.unknowns = ip.sol_chrono)

\* a Solve that the cap ended, after at least two iterations
C2_Witness ==
    /\ pc = "idle" /\ ip.m > 0 /\ sysd.from_vector = 1
    /\ ip.iteration_count = ip.iteration_count_max
    /\ obs.iterate = ip.iteration_count_max - 1
    /\ obs.iterate >= 2

Is(u, v) == VHasTop(v) \/ u = v

\* C4: at every iteration boundary of a Solve whose engine calls all
\* succeeded, rp = A x - y - b, rd = G x - A' lam + c and mu = y'lam / m.
C4_ResidualsAreDefinitions ==
    (pc = "loop" /\ ~Unknown(ip) /\ ip.mumps_engine.failures = 0) =>
        /\ Is(ip.rp, DefRp(sysd.prob, ip.x, ip.y))
        /\ Is(ip.rd, DefRd(sysd.prob, ip.x, ip.lam))
        /\ Is(<<ip.mu>>, <<DefMu(ip.y, ip.lam)>>)

\* an iteration with different primal and dual step lengths has ended and
\* the residuals are not zero
C4_Witness ==
    /\ pc = "loop" /\ ~Unknown(ip) /\ ip.mumps_engine.failures = 0
    /\ obs.iterate >= 1 /\ ~ip.EQUAL_STEP_LENGTH
    /\ ~VHasTop(DefRd(sysd.prob, ip.x, ip.lam)) /\ ~VHasTop(DefRp(sysd.prob, ip.x, ip.y))
    /\ \E i \in 1..ip.n : ip.rd[i] # Zero
    /\ \E i \in 1..ip.m : ip.rp[i] # Zero

C6_Unconstrained ==
    (pc = "idle" /\ ip.solver_call > 0 /\ ip.m = 0 /\ ~Unknown(ip)) =>
        /\ ip.mumps_engine.calls = 1
        /\ ip.mumps_engine.mat = sysd.prob.M
        /\ ip.mumps_engine.rhs_in = MatrScale(DefC(sysd.prob), I(-1))
        /\ sysd.from_vector = 1
        /\ sysd.unknowns = ip.rhs_sol
        /\ ip.mumps_engine.status = 0 =>
              Is(MatVec(sysd.prob.M, sysd.unknowns), MatrScale(DefC(sysd.prob), I(-1)))
        /\ obs.starting_point = 0
        /\ obs.iterate = 0

\* the engine has solved 2 x = -4
C6_Witness ==
    /\ pc = "idle" /\ ip.solver_call > 0 /\ ip.m = 0
    /\ ip.mumps_engine.status = 0
    /\ sysd.unknowns = <<I(-2)>>

\* max(|v|, 1)
MaxAbsOne(v) == IF RLe(One, RAbs(v)) THEN RAbs(v) ELSE One

\* the starting slack A x - b at x = 1
StartSlack(d) == DefRp(d, FillElem(d.nv, One), FillElem(d.nc, Zero))

\* (Dx, Dy, Dlam) solves the Newton system with sigma = 0 at
\* x = 1, y = A x - b, lam = 1:
\*    G Dx - A' Dlam = -rd,   A Dx - Dy = -rp,   lam Dy + y Dlam = -y lam
AffineStep(d, Dx, Dy, Dlam) ==
    \E x \in {FillElem(d.nv, One)}, y \in {StartSlack(d)}, lam \in {FillElem(d.nc, One)} :
       /\ VSub(MatVec(d.M, Dx), TransVec(d.Cq, Dlam, d.nv))
             = MatrScale(DefRd(d, x, lam), I(-1))
       /\ VSub(MatVec(d.Cq, Dx), Dy) = MatrScale(DefRp(d, x, y), I(-1))
       /\ VAdd(MatrScaleVec(lam, Dy), MatrScaleVec(y, Dlam))
             = MatrScale(MatrScaleVec(y, lam), I(-1))

\* C7: the starting point is x = 1, lam = 1, y = A x - b moved by one affine
\* step (sigma = 0) and clamped: y_i = max(|y_i + Dy_i|, 1),
\* lam_i = max(|lam_i + Dlam_i|, 1), so every component is at least 1; rp, rd
\* and mu are recomputed at that point.
C7_StartingPoint ==
    (pc = "loop" /\ obs.iterate = 0 /\ ~Unknown(ip)) =>
        /\ ip.x = FillElem(ip.n, One)
        /\ ip.mumps_engine.calls = 1
        /\ ip.mumps_engine.failures = 0 => AffineStep(sysd.prob, ip.Dx, ip.Dy, ip.Dlam)
        /\ \A i \in 1..ip.m :
              /\ ip.y[i] = MaxAbsOne(RAdd(StartSlack(sysd.prob)[i], ip.Dy[i]))
              /\ ip.lam[i] = MaxAbsOne(RAdd(One, ip.Dlam[i]))
              /\ RLe(One, ip.y[i]) /\ RLe(One, ip.lam[i])
        /\ Is(ip.rp, DefRp(sysd.prob, ip.x, ip.y))
        /\ Is(ip.rd, DefRd(sysd.prob, ip.x, ip.lam))
        /\ Is(<<ip.mu>>, <<DefMu(ip.y, ip.lam)>>)

\* a starting point with a component raised to 1 and one kept above 1
C7_Witness ==
    /\ pc = "loop" /\ obs.iterate = 0 /\ ~Unknown(ip)
    /\ ip.mumps_engine.failures = 0
    /\ \E i \in 1..ip.m :
          RLt(RAbs(RAdd(StartSlack(sysd.prob)[i], ip.Dy[i])), One) /\ ip.y[i] = One
    /\ \E i \in 1..ip.m : RLt(One, ip.y[i])
    /\ \E i \in 1..ip.m : RLt(One, ip.lam[i])

\* C8: the vector Solve emits holds x in its first n entries; with
\* SKIP_CONTACTS_UV it has n + 3 m entries, -lam_i, 0, 0 from n + 3 i on;
\* without, it has n + m entries, -lam_i at n + i (i from 0).
C8_SolutionLayout ==
    (pc = "idle" /\ ip.solver_call > 0 /\ ip.m > 0) =>
        /\ sysd.from_vector = 1
        /\ Len(sysd.unknowns) = IF ip.SKIP_CONTACTS_UV THEN ip.n + 3 * ip.m ELSE ip.n + ip.m
        /\ \A k \in 1..ip.n : sysd.unknowns[k] = ip.x[k]
        /\ \A i \in 0..(ip.m - 1) :
              IF ip.SKIP_CONTACTS_UV
              THEN /\ sysd.unknowns[ip.n + 3 * i + 1] = RNeg(ip.lam[i + 1])
                   /\ sysd.unknowns[ip.n + 3 * i + 2] = Zero
                   /\ sysd.unknowns[ip.n + 3 * i + 3] = Zero
              ELSE sysd.unknowns[ip.n + i + 1] = RNeg(ip.lam[i + 1])

\* a solution with two multipliers has been emitted in the n + 3 m layout
C8_Witness ==
    /\ pc = "idle" /\ ip.solver_call > 0 /\ ip.m = 2 /\ ip.SKIP_CONTACTS_UV
    /\ ~Unknown(ip)
    /\ sysd.from_vector = 1
    /\ Len(sysd.unknowns) = ip.n + 3 * ip.m
    /\ \A i \in 1..ip.m : RLt(Zero, ip.lam[i])

\* v + alpha Dv >= 0 in every component
StaysNonNegative(v, Dv, alpha) ==
    \A i \in 1..Len(v) : RLe(Zero, RAdd(v[i], RMul(alpha, Dv[i])))

\* the largest alpha in (0, 1] with v + alpha Dv >= 0, for v > 0: it is 1 or
\* one of the steps -v_i / Dv_i that bring a component to zero
LargestAlpha(v, Dv) ==
    The({ CHOOSE alpha \in candidates :
             /\ StaysNonNegative(v, Dv, alpha)
             /\ \A other \in candidates :
                   StaysNonNegative(v, Dv, other) => RLe(other, alpha)
          : candidates \in {{One} \cup
               {a \in {RDiv(RNeg(v[i]), Dv[i]) : i \in {k \in 1..Len(v) : RLt(Dv[k], Zero)}} :
                   RLt(Zero, a) /\ RLe(a, One)}} })

FindNewtonStepLengthReturned ==
    call.op = "find_Newton_step_length" /\ call.returned

\* C9 as stated: for v > 0, any Dv and eta in (0, 1], find_Newton_step_length
\* returns eta times the largest alpha in (0, 1] with v + alpha Dv >= 0.
C9_StatedStepLength ==
    FindNewtonStepLengthReturned =>
        call.result = RMul(call.eta, LargestAlpha(call.vect, call.Dvect))

\* C9: for v > 0, any Dv and eta in (0, 1], find_Newton_step_length returns
\* the largest alpha in (0, 1] with eta v + alpha Dv >= 0, that is
\* min(1, eta r) where r is the smallest -v_i / Dv_i over the Dv_i < 0.
C9_StepLength ==
    FindNewtonStepLengthReturned =>
        call.result = LargestAlpha(MatrScale(call.vect, call.eta), call.Dvect)

\* a call with eta < 1 and a decreasing component that returns 1: the
\* shortened step to the boundary is still longer than 1
C9_Witness ==
    /\ FindNewtonStepLengthReturned
    /\ RLt(call.eta, One)
    /\ \E i \in 1..Len(call.Dvect) : RLt(call.Dvect[i], Zero)
    /\ call.result = One

\* C10: the tolerances configured with SetTolerances before Solve are the
\* thresholds the exit test of that Solve compares against.
C10_ConfiguredTolerancesUsed ==
    (pc = "loop" /\ obs.tolerances \in UserTolerances) =>
        /\ ip.IPtolerances.rp_nnorm = obs.tolerances.rp
        /\ ip.IPtolerances.rd_nnorm = obs.tolerances.rd
        /\ ip.mu_tolerance = obs.tolerances.mu

\* the members an iteration leaves when it performs only the predictor: one
\* KKT solve with sigma = 0, then x, y, lam, rp, rd and mu moved by the
\* predictor step
PredictorOnly(s0, choice) ==
    The({ The({ The({ PredictionUpdate(s1, alfa_pred, y_pred, lam_pred,
                                       RDiv(MatrDot(y_pred, lam_pred), I(s1.m)))
                      : y_pred \in {VAdd(MatrScale(s1.Dy, alfa_pred[1]), s1.y)},
                        lam_pred \in {VAdd(MatrScale(s1.Dlam, alfa_pred[2]), s1.lam)} })
                : alfa_pred \in {StepLengths(s1, One)} })
          : s1 \in {KKTsolve(s0, Zero, choice)} })

C12_WarmStart ==
    [][(/\ pc = "idle" /\ ip.warm_start /\ ip.solver_call >= 1 /\ ip.m > 0
        /\ obs.iterate >= 1 /\ ip.mumps_engine.failures = 0
        /\ ip'.solver_call = ip.solver_call + 1
        /\ ip'.n = ip.n /\ ip'.m = ip.m
        /\ ip'.mumps_engine.failures = 0
        /\ ~Unknown(ip) /\ ~Unknown(ip'))
       => (ip'.x = ip.x /\ ip'.y = ip.y /\ ip'.lam = ip.lam)]_vars

\* C13: once an engine call of the current Solve has returned a non-zero
\* status, that Solve is over and the failure is surfaced: Solve is not in
\* its loop, it has handed no solution to FromVectorToUnknowns, and what it
\* returned is not the 0 of a successful Solve.
C13_EngineFailureAborts ==
    ip.mumps_engine.failures > 0 =>
        /\ pc = "idle"
        /\ sysd.from_vector = 0
        /\ obs.returned # Zero

\* C14: a Solve that the iteration cap ended while the exit test was false
\* has returned normally, has handed its iterate to FromVectorToUnknowns, and
\* has returned a status that differs from the 0 of a converged Solve.
C14_NonConvergenceFlagged ==
    (/\ pc = "idle" /\ ip.solver_call > 0 /\ ip.m > 0
     /\ ip.mumps_engine.failures = 0
     /\ ~ExitUnknown(ip) /\ ~check_exit_conditions(ip)) =>
        /\ sysd.from_vector = 1
        /\ sysd.unknowns = ip.sol_chrono
        /\ obs.returned # Zero

\* C15: a Solve called with the NORMAL method on a system with constraints
\* (it makes no engine call) reports that the method is unsupported: it does
\* not run the predictor-corrector loop, hands no solution to
\* FromVectorToUnknowns, and does not return the 0 of a successful Solve.
C15_NormalUnsupported ==
    (/\ ip.KKT_solve_method = "NORMAL" /\ ip.solver_call > 0 /\ ip.m > 0
     /\ ip.mumps_engine.calls = 0) =>
        /\ pc = "idle"
        /\ obs.iterate = 0
        /\ sysd.from_vector = 0
        /\ obs.returned # Zero

\* the side of the square KKT matrix of a layout, and the columns before its
\* -A' block
LayoutSide(method, n, m) == IF method = "STANDARD" THEN n + 2 * m ELSE n + m

LayoutShift(method, n, m) == IF method = "STANDARD" THEN n + m ELSE n

\* everything a Solve holds follows the layout `method`: the sizes of BigMat
\* and rhs_sol, the system last given to the engine, the blocks G, A and -A'
\* of the assembly, and the three clipped multiplications
FollowsLayout(s, d, method) ==
    \E side \in {LayoutSide(method, s.n, s.m)}, shift \in {LayoutShift(method, s.n, s.m)} :
       /\ Len(s.BigMat) = side
       /\ \A i \in 1..Len(s.BigMat) : Len(s.BigMat[i]) = side
       /\ Len(s.rhs_sol) = side
       /\ Len(s.mumps_engine.mat) = side
       /\ Len(s.mumps_engine.rhs_in) = side
       /\ ~Unknown(s) =>
             /\ \A i \in 1..s.n : \A j \in 1..s.n : s.BigMat[i][j] = d.M[i][j]
             /\ \A i \in 1..s.m : \A j \in 1..s.n :
                   /\ s.BigMat[s.n + i][j] = d.Cq[i][j]
                   /\ s.BigMat[j][shift + i] = RNeg(d.Cq[i][j])
             /\ Is(multiplyA(s, s.x, s.y), MatVec(d.Cq, s.x))
             /\ Is(multiplyG(s, s.x, s.rd), MatVec(d.M, s.x))
             /\ Is(multiplyNegAT(s, s.lam, s.vectn),
                   MatrScale(TransVec(d.Cq, s.lam, s.n), I(-1)))

\* C16 as stated: the layout of a solver never changes after construction,
\* and a Solve follows it in its sizes, assembly, solves and multiplications.
C16_LayoutFixedAtConstruction ==
    /\ [][ip'.KKT_solve_method = ip.KKT_solve_method]_vars
    /\ [](pc = "loop" => FollowsLayout(ip, sysd.prob, ip.KKT_solve_method))

\* C16: the layout (AUGMENTED at construction) changes only through
\* SetKKTSolutionMethod between Solve calls, never while a Solve runs, and a
\* Solve with the STANDARD or AUGMENTED method follows the layout selected
\* when it was called in its sizes, assembly, solves and multiplications.
C16_LayoutFixedWithinSolve ==
    /\ [][(pc = "loop" \/ pc' = "loop") => ip'.KKT_solve_method = ip.KKT_solve_method]_vars
    /\ [](pc = "loop" => FollowsLayout(ip, sysd.prob, ip.KKT_solve_method))

\* a second Solve has iterated in the STANDARD layout, which only a call of
\* SetKKTSolutionMethod after construction selects
C16_Witness ==
    /\ pc = "loop" /\ ip.solver_call = 2 /\ obs.iterate >= 1
    /\ ip.KKT_solve_method = "STANDARD"
    /\ ip.m = 2 /\ ~Unknown(ip)

\* Z * sol = rhs, compared where the product can be represented
SolvesSystem(Z, sol, rhs) == \E prod \in {MatVec(Z, sol)} : VFinite(prod) => prod = rhs

\* a call of KKTsolve has just returned
KKTsolveReturns == call.op = "KKTsolve" /\ call'.count = call.count + 1

C19_RowMajorPattern ==
    [][learner'.row_major_format =>
         /\ call'.op = "GetSparsityPattern" =>
               /\ Len(call'.result) = learner'.m_num_rows
               /\ \A r \in 0..(learner'.m_num_rows - 1) :
                     LET list == call'.result[r + 1]
                     IN  /\ \A k \in 1..(Len(list) - 1) : list[k] < list[k + 1]
                         /\ {list[k] : k \in 1..Len(list)} =
                               {p[2] : p \in {q \in obs'.inserted : q[1] = r}}
         /\ (call'.op = "GetNNZ" /\ obs'.pattern_current) =>
               call'.result = Cardinality(obs'.inserted)
         /\ (call'.op = "GetSparsityPattern" /\ obs.pattern_current) =>
               call'.result = learner.row_lists]_vars

C19_Witness ==
    /\ learner.row_major_format /\ pc = "idle"
    /\ call.op = "GetNNZ" /\ obs.pattern_current
    /\ obs.insertions = MaxInsertions /\ Cardinality(obs.inserted) = 2
    /\ call.result = 2
    /\ \E r \in 1..Len(learner.row_lists) : learner.row_lists[r] = <<0, 1>>

\* C20: a column-major learner holds one list per column, and
\* SetElement(r, c) with 0 <= r < rows and 0 <= c < cols appends r to the list
\* of column c.
C20_ColumnMajorLists ==
    [][(~learner.row_major_format /\ obs'.insertions = obs.insertions + 1)
       => /\ Len(learner.row_lists) = learner.m_num_cols
          /\ pc' = "idle"
          /\ learner'.row_lists =
                [learner.row_lists EXCEPT ![call'.inscol + 1] = Append(@, call'.insrow)]]_vars

\* the number of slots whose initialized flag is set
InitializedSlots(mat) ==
    Cardinality({k \in 1..Len(mat.initialized_element) : mat.initialized_element[k]})

\* C21: in every state of a ChCSR3Matrix, compressed or not, GetNNZ() is the
\* number of initialized slots; after Compress() it is also leadIndex[L].
C21_NNZCountsInitialized ==
    /\ CsrGetNNZ(csr) = InitializedSlots(csr)
    /\ call.op = "Compress" => InitializedSlots(csr) = csr.leadIndex[LeadDim(csr) + 1]

\* C22: with the sparsity-pattern lock engaged, Reset(r, c, hint) on a matrix
\* of shape r x c sets every stored value to zero and leaves leadIndex,
\* trailIndex and the initialized flags as they were; with the lock off or
\* another shape, Reset reallocates the arrays for r x c and no element of the
\* previous pattern remains.
C22_ResetKeepsLockedPattern ==
    [][call'.op = "Reset"
       => IF csr.m_lock /\ call'.nrows = csr.m_num_rows /\ call'.ncols = csr.m_num_cols
          THEN /\ csr'.values = Tuple([k \in 1..Len(csr.values) |-> 0])
               /\ csr'.leadIndex = csr.leadIndex
               /\ csr'.trailIndex = csr.trailIndex
               /\ csr'.initialized_element = csr.initialized_element
               /\ csr'.m_num_rows = csr.m_num_rows /\ csr'.m_num_cols = csr.m_num_cols
          ELSE /\ csr'.m_num_rows = call'.nrows /\ csr'.m_num_cols = call'.ncols
               /\ Len(csr'.leadIndex) = LeadDim(csr') + 1
               /\ InitializedSlots(csr') = 0
               /\ \A row_sel \in 0..(call'.nrows - 1), col_sel \in 0..(call'.ncols - 1) :
                     CsrGetElement(csr', row_sel, col_sel) = 0]_vars

C22_Witness ==
    /\ call.op = "Reset" /\ csr.m_lock
    /\ call.nrows = csr.m_num_rows /\ call.ncols = csr.m_num_cols
    /\ InitializedSlots(csr) = 2
    /\ InitializedSlots(csr) < Len(csr.initialized_element)
    /\ \A k \in 1..Len(csr.values) : csr.values[k] = 0

\* the solver in the other layout, loaded with the same system and brought to
\* the same state (x, y, lam, rp, rd, mu)
OtherLayout(s, d) ==
    The({ [LoadSystem(reset_dimensions(
                         [Construct(FALSE, TRUE, FALSE, TRUE)
                             EXCEPT !.KKT_solve_method = method, !.n = s.n, !.m = s.m,
                                    !.solver_call = 1],
                         0, 0), d)
              EXCEPT !.x = s.x, !.y = s.y, !.lam = s.lam,
                     !.rp = s.rp, !.rd = s.rd, !.mu = s.mu]
          : method \in {IF s.KKT_solve_method = "STANDARD" THEN "AUGMENTED" ELSE "STANDARD"} })

\* the predictor solve in the other layout, and the corrector solve after it
OtherPredictor(s, d) == Blur(KKTsolve(OtherLayout(s, d), Zero, "solved"))

OtherCorrector(s, d, sigma) == Blur(KKTsolve(OtherPredictor(s, d), sigma, "solved"))

SameDirection(s, t) == s.Dx = t.Dx /\ s.Dy = t.Dy /\ s.Dlam = t.Dlam

\* C23: from the same solver state the STANDARD and the AUGMENTED layouts
\* compute the same direction (Dx, Dy, Dlam), in the predictor solve
\* (sigma = 0) and in the corrector solve that follows it (complementarity
\* right-hand side rpd + Dy * Dlam - sigma * mu, Dy and Dlam being the
\* predictor directions).
C23_LayoutsAgree ==
    [][(KKTsolveReturns /\ ~Unknown(ip) /\ ~Unknown(ip') /\ ip'.mumps_engine.status = 0)
       => /\ call'.sigma = Zero =>
                \E other \in {OtherPredictor(ip, sysd.prob)} :
                   (~Unknown(other) /\ other.mumps_engine.status = 0)
                      => SameDirection(ip', other)
          /\ (call'.sigma # Zero /\ call.count = 1 /\ call.sigma = Zero
                /\ ip.mumps_engine.status = 0) =>
                \E other \in {OtherCorrector(ip, sysd.prob, call'.sigma)} :
                   (~Unknown(other) /\ other.mumps_engine.status = 0)
                      => SameDirection(ip', other)]_vars

\* the predictor half of C23 on its own: the other layout solves too and gives
\* the same direction
C23_PredictorsAgree ==
    [][(KKTsolveReturns /\ ~Unknown(ip) /\ ~Unknown(ip') /\ ip'.mumps_engine.status = 0)
       => /\ call'.sigma = Zero =>
                \E other \in {OtherPredictor(ip, sysd.prob)} :
                   (~Unknown(other) /\ other.mumps_engine.status = 0)
                      /\ SameDirection(ip', other)]_vars

\* C24: after initialize(), whatever (n, m) the descriptors of the successive
\* calls report, x, Dx, c, rd, vectn have length n, y, lam, Dy, Dlam, b, rp,
\* rpd, vectm have length m, and rhs_sol has the dimension of BigMat (n+m for
\* AUGMENTED, n+2m for STANDARD); vectors whose size did not change are not
\* resized: those that initialize does not write afterwards keep their content.
C24_DimensionsFollowDescriptor ==
    [][(call'.op = "initialize" /\ ip'.solver_call = ip.solver_call + 1)
       => LET n == CountActiveVariables(sysd'.prob)
              m == CountActiveConstraints(sysd'.prob)
              N == IF ip'.KKT_solve_method = "STANDARD" THEN n + 2 * m ELSE n + m
          IN  /\ ip'.n = n /\ ip'.m = m
              /\ \A v \in {ip'.x, ip'.Dx, ip'.c, ip'.rd, ip'.vectn} : Len(v) = n
              /\ \A v \in {ip'.y, ip'.lam, ip'.Dy, ip'.Dlam, ip'.b, ip'.rp, ip'.rpd,
                            ip'.vectm} : Len(v) = m
              /\ Len(ip'.rhs_sol) = N /\ Len(ip'.BigMat) = N
              /\ \A i \in 1..N : Len(ip'.BigMat[i]) = N
              /\ (n = ip.n /\ m = 0 /\ ~Unknown(ip'))
                    => /\ ip'.x = ip.x /\ ip'.Dx = ip.Dx
                       /\ ip'.rd = ip.rd /\ ip'.vectn = ip.vectn
              /\ (m = ip.m /\ ip'.KKT_solve_method = "AUGMENTED" /\ ~Unknown(ip'))
                    => ip'.rpd = ip.rpd]_vars

C24_Witness ==
    /\ call.op = "initialize" /\ ip.solver_call = MaxInitializeCalls
    /\ ip.n = 2 /\ call.n_old = 1
    /\ ip.m = 1 /\ call.m_old = 1
    /\ ip.KKT_solve_method = "AUGMENTED" /\ ~Unknown(ip)
    /\ ip.rpd # FillElem(ip.m, Zero)

\* the element (row_sel, col_sel) lies in the first n rows and in the columns
\* of the A' block of the layout
InATBlock(s, row_sel, col_sel) ==
    /\ row_sel < s.n
    /\ IF s.KKT_solve_method = "STANDARD"
       THEN col_sel >= s.n + s.m /\ col_sel < s.n + 2 * s.m
       ELSE col_sel >= s.n /\ col_sel < s.n + s.m

\* C25: make_positive_definite negates exactly the stored elements of BigMat
\* in rows [0, n) and in the columns of the A' block ([n, n+m) for AUGMENTED,
\* [n+m, n+2m) for STANDARD), leaves every other value and the sparsity
\* pattern as they were, and applied twice gives back the matrix.
C25_NegatesATBlock ==
    [][call'.op = "make_positive_definite"
       => /\ csr'.leadIndex = csr.leadIndex
          /\ csr'.trailIndex = csr.trailIndex
          /\ csr'.initialized_element = csr.initialized_element
          /\ \A k \in 1..Len(csr.values) :
                ~csr.initialized_element[k] => csr'.values[k] = csr.values[k]
          /\ \A row_sel \in 0..(csr.m_num_rows - 1), col_sel \in 0..(csr.m_num_cols - 1) :
                CsrGetElement(csr', row_sel, col_sel) =
                   IF InATBlock(ip, row_sel, col_sel)
                   THEN -CsrGetElement(csr, row_sel, col_sel)
                   ELSE CsrGetElement(csr, row_sel, col_sel)
          /\ make_positive_definite_arrays(csr', ip.n, ip.m, ip.KKT_solve_method) = csr]_vars

C25_Witness ==
    /\ call.op = "make_positive_definite" /\ ip.KKT_solve_method = "STANDARD"
    /\ CsrGetElement(csr, 0, 2) < 0
    /\ CsrGetElement(csr, 0, 1) > 0
    /\ CsrGetElement(csr, 1, 2) > 0
    /\ InitializedSlots(csr) < Len(csr.initialized_element)

\* the positions of the non-zero elements of the system of descriptor d, as
\* the lists of a row-major learner
PatternOf(d) ==
    The({ Tuple([i \in 1..Len(Z) |->
             JoinLists(Tuple([j \in 1..Len(Z) |->
                          IF Z[i][j] = Zero THEN <<>> ELSE <<j - 1>>]), Len(Z))])
          : Z \in {ConvertToMatrixForm(d, 0)} })

\* C26: a request made by ForceSparsityPatternUpdate serves one Setup: the
\* Setup that finds it builds a learner from the descriptor, loads its pattern
\* into the matrix and clears the request; a Setup that finds none builds no
\* learner; the request is raised by ForceSparsityPatternUpdate only.  In
\* every Setup the matrix is assembled, then compressed, then given to the
\* engine, then factorized.
C26_PatternLearnedOnRequest ==
    [][/\ call'.op = "Setup" =>
            /\ ~mumps'.m_force_sparsity_pattern_update
            /\ IF mumps.m_force_sparsity_pattern_update
               THEN /\ learner'.row_lists = PatternOf(sysd'.prob)
                    /\ SubSeq(call'.events, 1, 3) =
                          <<"ChSparsityPatternLearner", "ConvertToMatrixForm",
                            "LoadSparsityPattern">>
               ELSE /\ learner' = learner
                    /\ \A k \in 1..Len(call'.events) :
                          call'.events[k] \notin {"ChSparsityPatternLearner",
                                                  "LoadSparsityPattern"}
            /\ SubSeq(call'.events, Len(call'.events) - 3, Len(call'.events)) =
                  <<"ConvertToMatrixForm", "Compress", "SetMatrix", "ANALYZE_FACTORIZE">>
            /\ mumps'.m_engine.matrix = csr'
            /\ mumps'.m_engine.job = "ANALYZE_FACTORIZE"
            /\ csr'.isCompressed
            /\ CsrDense(csr') = ConvertToMatrixForm(sysd'.prob, 0)
       /\ (mumps'.m_force_sparsity_pattern_update /\ ~mumps.m_force_sparsity_pattern_update)
             => (call'.op = "ForceSparsityPatternUpdate" /\ call'.val)]_vars

C26_Witness ==
    /\ call.op = "Setup" /\ mumps.m_setup_call = 3
    /\ "LoadSparsityPattern" \notin {call.events[k] : k \in 1..Len(call.events)}
    /\ learner # NoLearner
    /\ learner.row_lists # PatternOf(sysd.prob)
    /\ csr.m_lock

\* C30: Setup returns true exactly when the status of ANALYZE_FACTORIZE is 0
\* and counts one call whatever the status; Solve counts one call and gives
\* FromVectorToUnknowns the buffer the SOLVE job has overwritten.
C30_SetupAndSolveCounters ==
    [][/\ call'.op = "Setup" =>
            /\ call'.result = (call'.mumps_message = 0)
            /\ mumps'.m_engine.INFOG1 = call'.mumps_message
            /\ mumps'.m_setup_call = mumps.m_setup_call + 1
            /\ mumps'.m_solve_call = mumps.m_solve_call
       /\ call'.op = "Solve" =>
            /\ mumps'.m_solve_call = mumps.m_solve_call + 1
            /\ mumps'.m_setup_call = mumps.m_setup_call
            /\ sysd'.from_vector = sysd.from_vector + 1
            /\ sysd'.unknowns = mumps'.m_rhs_sol
            /\ mumps'.m_rhs_sol =
                  MumpsCall(CsrDense(csr), ConvertToRhs(sysd.prob), call'.choice).sol
            /\ mumps'.m_engine.INFOG1 = 0 =>
                  SolvesSystem(CsrDense(csr), mumps'.m_rhs_sol, ConvertToRhs(sysd.prob))]_vars

C30_Witness ==
    /\ call.op = "Setup" /\ ~call.result /\ call.mumps_message > 0
    /\ mumps.m_setup_call = 2 /\ mumps.m_solve_call = 1
    /\ sysd.from_vector = 1
    /\ mumps.m_rhs_sol = sysd.unknowns
    /\ Len(sysd.unknowns) = Len(ConvertToRhs(sysd.prob))
    /\ sysd.unknowns # ConvertToRhs(sysd.prob)

\* C27: in a Solve with constraints (STANDARD or AUGMENTED layout, ONLY_PREDICT
\* off) the engine has been called once for the starting point and twice for
\* every iteration run so far, each time on the BigMat and the right-hand side
\* of that moment; FromVectorToUnknowns is called once, when Solve returns,
\* and no engine call follows it.
C27_EngineCallsPerSolve ==
    [][(pc' \in {"loop", "idle"} /\ ip'.m > 0 /\ ~ip'.ONLY_PREDICT) =>
          /\ ip'.mumps_engine.calls = 1 + 2 * obs'.iterate
          /\ ip'.mumps_engine.mat = ip'.BigMat
          /\ Len(ip'.mumps_engine.rhs_in) = Len(ip'.rhs_sol)
          /\ sysd'.from_vector = IF pc' = "idle" THEN 1 ELSE 0
          /\ (pc = "loop" /\ pc' = "idle") =>
                /\ ip'.mumps_engine.calls = ip.mumps_engine.calls
                /\ sysd.from_vector = 0]_vars

C27_Witness ==
    /\ pc = "idle" /\ ip.m = 2 /\ ~ip.ONLY_PREDICT
    /\ ip.KKT_solve_method = "STANDARD"
    /\ obs.iterate = 2 /\ ip.mumps_engine.calls = 5
    /\ ip.mumps_engine.failures = 0
    /\ sysd.from_vector = 1

\* C28: the counter of the loop of Solve is 1 at the first test and one more
\* than the number of iterations run at every test; an iteration runs only
\* when the counter is below iteration_count_max and the exit test, made
\* first, fails; so Solve returns after iteration_count_max - 1 iterations
\* unless the exit test holds earlier, and after none when
\* iteration_count_max <= 1, the vector emitted then being that of the
\* starting point (x of ones, lam at least 1).
C28_IterationCount ==
    [][/\ pc' = "loop" => ip'.iteration_count = obs'.iterate + 1
       /\ (pc = "idle" /\ pc' = "loop") => (ip'.iteration_count = 1 /\ obs'.iterate = 0)
       /\ (pc = "loop" /\ pc' = "loop") =>
             /\ obs'.iterate = obs.iterate + 1
             /\ ip.iteration_count < ip.iteration_count_max
             /\ FALSE \in ExitOutcomes(ip)
       /\ (pc = "loop" /\ pc' = "idle") =>
             /\ obs'.iterate = obs.iterate
             /\ \/ obs.iterate = ip.iteration_count_max - 1
                \/ obs.iterate = 0 /\ ip.iteration_count_max <= 1
                \/ TRUE \in ExitOutcomes(ip)
             /\ sysd'.unknowns = generate_solution(ip).sol_chrono
             /\ (obs.iterate = 0 /\ ~Unknown(ip)) =>
                   /\ ip.x = FillElem(ip.n, One)
                   /\ \A i \in 1..ip.m : ~RLt(ip.lam[i], One) /\ ~RLt(ip.y[i], One)
                   /\ \A k \in 1..ip.n : sysd'.unknowns[k] = One]_vars

C28_Witness ==
    /\ pc = "idle" /\ ip.m > 0 /\ ~Unknown(ip)
    /\ ip.iteration_count_max = 3 /\ obs.iterate = 2
    /\ ~check_exit_conditions(ip)
    /\ sysd.from_vector = 1

\* C29: for v >= 0, any Dv and eta in (0, 1], find_Newton_step_length returns
\* alpha with 0 <= alpha <= 1 and v_i + alpha Dv_i >= (1 - eta) v_i >= 0 for
\* every i with Dv_i < 0; alpha is 1 when no Dv_i is negative or when every
\* bound eta v_i / (-Dv_i) is at least 1.
C29_StepKeepsNonNegative ==
    FindNewtonStepLengthReturned =>
        \E alpha \in {call.result}, v \in {call.vect}, Dv \in {call.Dvect}, eta \in {call.eta} :
           /\ RLe(Zero, alpha) /\ RLe(alpha, One)
           /\ \A i \in 1..Len(v) :
                 RLt(Dv[i], Zero) =>
                    /\ RLe(RMul(RSub(One, eta), v[i]), RAdd(v[i], RMul(alpha, Dv[i])))
                    /\ RLe(Zero, RMul(RSub(One, eta), v[i]))
           /\ (\A i \in 1..Len(v) :
                  RLt(Dv[i], Zero) => RLe(One, RDiv(RMul(eta, v[i]), RNeg(Dv[i]))))
                 => alpha = One

\* a call with a zero component that decreases: the step returned is 0
C29_Witness ==
    /\ FindNewtonStepLengthReturned
    /\ \E i \in 1..Len(call.vect) : call.vect[i] = Zero /\ RLt(call.Dvect[i], Zero)
    /\ \E i \in 1..Len(call.vect) : RLt(Zero, call.vect[i]) /\ RLt(call.Dvect[i], Zero)
    /\ RLt(call.eta, One)
    /\ call.result = Zero

=============================================================================
